---- MODULE Spec2Model ----
(***************************************************************************)
(* Releasify: conventional-commit parsing, bump classification and         *)
(* semantic-version calculation over the git tag ledger.                   *)
(*                                                                         *)
(* Text is modelled as a sequence of one-character strings, so that every  *)
(* regular expression, glob and conversion of the Python code is computed  *)
(* character by character.  Optional[T] is the empty sequence (None) or a  *)
(* one-element sequence <<x>>.                                             *)
(***************************************************************************)
EXTENDS Integers, Sequences, FiniteSets, TLC

\* ------------------------------------------------------------------------
\* Bounds of the model
\* ------------------------------------------------------------------------
MaxTags == 2

MaxReleases == 1

MaxCommits == 3

MaxBranches == 2

\* ------------------------------------------------------------------------
\* Python values
\* ------------------------------------------------------------------------
None == <<>>

Some(x) == <<x>>

\* ------------------------------------------------------------------------
\* Characters and the character classes of Python's re module
\* ------------------------------------------------------------------------
DigitChars == <<"0","1","2","3","4","5","6","7","8","9">>

LowerChars == <<"a","b","c","d","e","f","g","h","i","j","k","l","m","n","o","p","q","r","s","t","u","v","w","x","y","z">>

UpperChars == <<"A","B","C","D","E","F","G","H","I","J","K","L","M","N","O","P","Q","R","S","T","U","V","W","X","Y","Z">>

\* the characters in ASCII order, for git's byte-wise ordering of ref names
AsciiOrder == <<"\n"," ","!","(",")","+","-",".","/">> \o DigitChars \o <<":">> \o UpperChars \o <<"_">> \o LowerChars

InSeq(c, cs) == \E i \in 1..Len(cs) : cs[i] = c

IndexOf(c, cs) == CHOOSE i \in 1..Len(cs) : cs[i] = c

IsDigit(c) == InSeq(c, DigitChars)

IsWord(c) == InSeq(c, DigitChars) \/ InSeq(c, LowerChars) \/ InSeq(c, UpperChars) \/ c = "_"

IsSpace(c) == c \in {" ", "\t", "\n", "\r", "\f"}

IsIdentChar(c) == InSeq(c, DigitChars) \/ InSeq(c, LowerChars) \/ InSeq(c, UpperChars) \/ c \in {"-", "."}

NotCloseParen(c) == c # ")"

Ord(c) == IndexOf(c, AsciiOrder)

lower_char(c) == IF InSeq(c, UpperChars) THEN LowerChars[IndexOf(c, UpperChars)] ELSE c

lower(s) == [i \in 1..Len(s) |-> lower_char(s[i])]

\* greatest j >= i-1 such that every character of s[i..j] satisfies P
\* (the end of a greedy run; requires i <= Len(s)+1)
RunEnd(s, i, P(_)) ==
  CHOOSE j \in (i-1)..Len(s) :
    /\ \A k \in i..j : P(s[k])
    /\ (j = Len(s) \/ ~P(s[j+1]))

\* least i <= j+1 such that every character of s[i..j] satisfies P
RunStart(s, j, P(_)) ==
  CHOOSE i \in 1..(j+1) :
    /\ \A k \in i..j : P(s[k])
    /\ (i = 1 \/ ~P(s[i-1]))

\* str.strip(): whitespace removed at both ends
strip(s) ==
  LET a == RunEnd(s, 1, IsSpace)
      b == RunStart(s, Len(s), IsSpace)
  IN  IF a = Len(s) THEN <<>> ELSE SubSeq(s, a + 1, b - 1)

IsV(c) == c = "v"

\* str.lstrip('v'): every leading 'v' removed
lstrip_v(s) == SubSeq(s, RunEnd(s, 1, IsV) + 1, Len(s))

\* str.split(sep) for a one-character separator
RECURSIVE split(_, _)
split(s, sep) ==
  IF ~InSeq(sep, s) THEN <<s>>
  ELSE LET i == CHOOSE k \in 1..Len(s) : s[k] = sep /\ \A m \in 1..(k-1) : s[m] # sep
       IN  <<SubSeq(s, 1, i - 1)>> \o split(SubSeq(s, i + 1, Len(s)), sep)

\* sep.join(parts)
RECURSIVE join(_, _)
join(parts, sep) ==
  IF parts = <<>> THEN <<>>
  ELSE IF Len(parts) = 1 THEN parts[1]
  ELSE parts[1] \o sep \o join(Tail(parts), sep)

\* str(int)
RECURSIVE nat_to_str(_)
nat_to_str(n) ==
  IF n < 10 THEN <<DigitChars[n + 1]>>
  ELSE nat_to_str(n \div 10) \o <<DigitChars[(n % 10) + 1]>>

int_to_str(n) == IF n < 0 THEN <<"-">> \o nat_to_str(0 - n) ELSE nat_to_str(n)

\* int(text) of a run of decimal digits (leading zeros allowed)
RECURSIVE digits_to_nat(_)
digits_to_nat(s) ==
  IF s = <<>> THEN 0
  ELSE 10 * digits_to_nat(SubSeq(s, 1, Len(s) - 1)) + (IndexOf(s[Len(s)], DigitChars) - 1)

AllDigits(s) == s # <<>> /\ \A i \in 1..Len(s) : IsDigit(s[i])

\* int(text): None stands for ValueError.  Over the characters a prerelease
\* segment can hold, int accepts an optional minus sign and decimal digits.
py_int(s) ==
  IF AllDigits(s) THEN Some(digits_to_nat(s))
  ELSE IF s # <<>> /\ s[1] = "-" /\ AllDigits(Tail(s)) THEN Some(0 - digits_to_nat(Tail(s)))
  ELSE None

\* byte-wise "less than" on text
RECURSIVE text_less(_, _)
text_less(a, b) ==
  IF b = <<>> THEN FALSE
  ELSE IF a = <<>> THEN TRUE
  ELSE IF a[1] = b[1] THEN text_less(Tail(a), Tail(b))
  ELSE Ord(a[1]) < Ord(b[1])

\* glob matching as used by `git tag -l <pattern>` and fnmatch.fnmatch:
\* '*' matches any text, '?' any one character, anything else itself
RECURSIVE wildmatch(_, _)
wildmatch(pattern, text) ==
  IF pattern = <<>> THEN text = <<>>
  ELSE IF Head(pattern) = "*"
       THEN \E k \in 0..Len(text) : wildmatch(Tail(pattern), SubSeq(text, k + 1, Len(text)))
  ELSE /\ text # <<>>
       /\ (Head(pattern) = "?" \/ Head(pattern) = Head(text))
       /\ wildmatch(Tail(pattern), Tail(text))

\* ------------------------------------------------------------------------
\* commit_parser.BumpType
\* ------------------------------------------------------------------------
MAJOR == "major"

MINOR == "minor"

PATCH == "patch"

NONE == "none"

BumpType == {MAJOR, MINOR, PATCH, NONE}

\* ------------------------------------------------------------------------
\* version_calc.Version
\* ------------------------------------------------------------------------
Version(major, minor, patch) ==
  [major |-> major, minor |-> minor, patch |-> patch, prerelease |-> None, build |-> None]

\* Python truthiness of an Optional[str]: neither None nor ''
Truthy(o) == o # None /\ o[1] # <<>>

Version_str(v) ==
  int_to_str(v.major) \o <<".">> \o int_to_str(v.minor) \o <<".">> \o int_to_str(v.patch)
    \o (IF Truthy(v.prerelease) THEN <<"-">> \o v.prerelease[1] ELSE <<>>)
    \o (IF Truthy(v.build) THEN <<"+">> \o v.build[1] ELSE <<>>)

\* Version.parse: Some(version), or None for ValueError.  The pattern is
\* matched group by group from the left, each group greedy: a1, b1, c1 are
\* the ends of major, minor and patch, p1 and q1 the ends of the optional
\* prerelease and build groups.
Version_parse(version_str) ==
  LET \* the end of an optional group '(?:<mark>([0-9A-Za-z\-.]+))?' after i
      GroupEnd(s, i, mark) ==
        IF i + 1 <= Len(s) /\ s[i + 1] = mark THEN RunEnd(s, i + 2, IsIdentChar) ELSE i
      Matched(s, a1, b1, c1, p1, q1) ==
        /\ a1 >= 1 /\ a1 + 1 <= Len(s) /\ s[a1 + 1] = "."
        /\ b1 >= a1 + 2 /\ b1 + 1 <= Len(s) /\ s[b1 + 1] = "."
        /\ c1 >= b1 + 2
        /\ p1 # c1 + 1
        /\ q1 # p1 + 1
        \* '$' matches at the end or before a final newline
        /\ (q1 = Len(s) \/ (q1 = Len(s) - 1 /\ s[Len(s)] = "\n"))
      Result(s, a1, b1, c1, p1, q1) ==
        IF ~Matched(s, a1, b1, c1, p1, q1) THEN None
        ELSE Some([major |-> digits_to_nat(SubSeq(s, 1, a1)),
                   minor |-> digits_to_nat(SubSeq(s, a1 + 2, b1)),
                   patch |-> digits_to_nat(SubSeq(s, b1 + 2, c1)),
                   prerelease |-> IF p1 > c1 THEN Some(SubSeq(s, c1 + 2, p1)) ELSE None,
                   build |-> IF q1 > p1 THEN Some(SubSeq(s, p1 + 2, q1)) ELSE None])
      AfterPrerelease(s, a1, b1, c1, p1) == Result(s, a1, b1, c1, p1, GroupEnd(s, p1, "+"))
      AfterPatch(s, a1, b1, c1) == AfterPrerelease(s, a1, b1, c1, GroupEnd(s, c1, "-"))
      AfterMinor(s, a1, b1) == AfterPatch(s, a1, b1, RunEnd(s, b1 + 2, IsDigit))
      AfterMajor(s, a1) == AfterMinor(s, a1, RunEnd(s, a1 + 2, IsDigit))
      AfterStrip(s) == AfterMajor(s, RunEnd(s, 1, IsDigit))
  IN  AfterStrip(lstrip_v(version_str))

\* a variant of bump that changes the numbers of the receiver and keeps its
\* prerelease and build parts
bump_keeping_suffix(self, bump_type) ==
  IF bump_type = MAJOR THEN [self EXCEPT !.major = self.major + 1, !.minor = 0, !.patch = 0]
  ELSE IF bump_type = MINOR THEN [self EXCEPT !.minor = self.minor + 1, !.patch = 0]
  ELSE IF bump_type = PATCH THEN [self EXCEPT !.patch = self.patch + 1]
  ELSE self

\* a variant of bump that counts the bumped field up and keeps the lower
\* fields, and starts the major line of a MINOR bump anew
bump_without_reset(self, bump_type) ==
  IF bump_type = MAJOR THEN Version(self.major + 1, self.minor, self.patch)
  ELSE IF bump_type = MINOR THEN Version(0, self.minor + 1, self.patch)
  ELSE IF bump_type = PATCH THEN Version(self.major, self.minor, self.patch + 1)
  ELSE Version(self.major, self.minor, self.patch)

bump(self, bump_type) ==
  IF bump_type = MAJOR THEN Version(self.major + 1, 0, 0)
  ELSE IF bump_type = MINOR THEN Version(self.major, self.minor + 1, 0)
  ELSE IF bump_type = PATCH THEN Version(self.major, self.minor, self.patch + 1)
  ELSE Version(self.major, self.minor, self.patch)

with_prerelease(self, prerelease, counter) ==
  [major |-> self.major, minor |-> self.minor, patch |-> self.patch,
   prerelease |-> Some(prerelease \o <<".">> \o int_to_str(counter)), build |-> None]

\* ------------------------------------------------------------------------
\* config.Config
\* ------------------------------------------------------------------------
BranchConfig(name, type, prerelease) == [name |-> name, type |-> type, prerelease |-> prerelease]

CommitTypeConfig(name, bump_, aliases) == [name |-> name, bump |-> bump_, aliases |-> aliases]

\* Config.DEFAULT_CONFIG["branches"]
DEFAULT_BRANCHES ==
  << BranchConfig(<<"m","a","i","n">>, "release", None),
     BranchConfig(<<"m","a","s","t","e","r">>, "release", None),
     BranchConfig(<<"d","e","v">>, "prerelease", Some(<<"d","e","v">>)),
     BranchConfig(<<"d","e","v","e","l","o","p">>, "prerelease", Some(<<"d","e","v">>)) >>

\* Config.DEFAULT_CONFIG["commit_types"], in dictionary order
DEFAULT_COMMIT_TYPES ==
  << CommitTypeConfig(<<"b","r","e","a","k","i","n","g">>, "major", <<>>),
     CommitTypeConfig(<<"f","e","a","t">>, "minor", <<<<"f","e","a","t","u","r","e">>>>),
     CommitTypeConfig(<<"f","i","x">>, "patch", <<<<"b","u","g","f","i","x">>, <<"h","o","t","f","i","x">>>>),
     CommitTypeConfig(<<"p","e","r","f">>, "patch", <<>>),
     CommitTypeConfig(<<"r","e","v","e","r","t">>, "patch", <<>>) >>

\* Config.DEFAULT_CONFIG["tag_format"]
DEFAULT_TAG_FORMAT == <<"$","{","v","e","r","s","i","o","n","}">>

\* branches of a user config.yaml, with glob patterns
USER_BRANCHES ==
  << BranchConfig(<<"*","/","b","e","t","a">>, "prerelease", Some(<<"b","e","t","a">>)),
     BranchConfig(<<"m","a","*">>, "release", None),
     BranchConfig(<<"*">>, "prerelease", Some(<<"d","e","v">>)) >>

\* commit_types of a user config.yaml: 'feat' demoted to patch, 'feature' a
\* type of its own next to being an alias, and a type with an unmapped bump
USER_COMMIT_TYPES ==
  << CommitTypeConfig(<<"f","e","a","t">>, "patch", <<<<"f","e","a","t","u","r","e">>, <<"a","d","d">>>>),
     CommitTypeConfig(<<"f","e","a","t","u","r","e">>, "major", <<>>),
     CommitTypeConfig(<<"f","i","x">>, "minor", <<<<"a","d","d">>>>),
     CommitTypeConfig(<<"d","o","c","s">>, "none", <<<<"d","o","c">>>>) >>

\* TAG_FORMAT / tag_format of a user configuration
USER_TAG_FORMAT == <<"v","$","{","v","e","r","s","i","o","n","}">>

Config(branches, commit_types, tag_format) ==
  [branches |-> branches, commit_types |-> commit_types, tag_format |-> tag_format]

\* dict.update on the commit types, a dictionary kept as the sequence of
\* its entries in insertion order: an entry of a name the dictionary has
\* replaces that entry in place, the others are appended in their order
RECURSIVE update_entries(_, _)
update_entries(entries, updates) ==
  LET put(update) ==
        IF \E i \in 1..Len(entries) : entries[i].name = update.name
        THEN [i \in 1..Len(entries) |->
                IF entries[i].name = update.name THEN update ELSE entries[i]]
        ELSE Append(entries, update)
  IN  IF updates = <<>> THEN entries
      ELSE update_entries(put(Head(updates)), Tail(updates))

\* dict.update on a dictionary kept as a function from its keys
update(d, u) == [k \in DOMAIN d \cup DOMAIN u |-> IF k \in DOMAIN u THEN u[k] ELSE d[k]]

\* Config.DEFAULT_CONFIG as the class body sets it
DEFAULT_CONFIG_LITERAL ==
  [platform |-> <<"a","u","t","o">>,
   branches |-> DEFAULT_BRANCHES,
   commit_types |-> DEFAULT_COMMIT_TYPES,
   tag_format |-> DEFAULT_TAG_FORMAT,
   changelog |-> [file |-> <<"C","H","A","N","G","E","L","O","G",".","m","d">>],
   slack |-> [enabled |-> FALSE, token |-> None, channel |-> None]]

\* the keys of DEFAULT_CONFIG whose value is a dictionary
DictKeys == {"commit_types", "changelog", "slack"}

\* no config file, or an empty one
NO_USER_CONFIG == [k \in {} |-> None]

\* os.getenv of an environment kept as a function from the names that are set
getenv(environ, name) == IF name \in DOMAIN environ THEN Some(environ[name]) ELSE None

\* Config._merge_config, on the value of one key: what self.config[key] is
\* afterwards.  A dictionary under a key of DictKeys is updated in place.
merge_config(self_config, user_config, key) ==
  IF key \notin DOMAIN user_config THEN self_config[key]
  ELSE IF key \in DictKeys
       THEN (IF key = "commit_types"
             THEN update_entries(self_config[key], user_config[key])
             ELSE update(self_config[key], user_config[key]))
       ELSE user_config[key]

\* Config._apply_env_overrides, on self.config after the merge
apply_env_overrides(self_config, environ) ==
  LET platform == getenv(environ, "RELEASE_PLATFORM")
      tag_format == getenv(environ, "TAG_FORMAT")
      branches_json == getenv(environ, "RELEASE_BRANCHES")
      slack_enabled == getenv(environ, "SLACK_ENABLED")
      slack_token == getenv(environ, "SLACK_TOKEN")
      slack_channel == getenv(environ, "SLACK_CHANNEL")
      enabled(slack) ==
        IF Truthy(slack_enabled)
        THEN [slack EXCEPT !.enabled = lower(slack_enabled[1]) \in {<<"t","r","u","e">>, <<"1">>, <<"y","e","s">>}]
        ELSE slack
      token(slack) ==
        IF Truthy(slack_token)
        THEN [slack EXCEPT !.token = slack_token, !.enabled = TRUE]
        ELSE slack
      channel(slack) ==
        IF Truthy(slack_channel) THEN [slack EXCEPT !.channel = slack_channel] ELSE slack
  IN  [self_config EXCEPT
         !.platform = IF Truthy(platform) THEN lower(platform[1]) ELSE @,
         !.tag_format = IF Truthy(tag_format) THEN tag_format[1] ELSE @,
         !.branches = IF branches_json # None /\ branches_json[1].valid
                      THEN branches_json[1].value ELSE @,
         !.slack = channel(token(enabled(@)))]

\* self.config at the end of Config.__init__: the shallow copy of
\* DEFAULT_CONFIG, the user file merged into it, then the environment
init_config(defaults, user_config, environ, env_overrides) ==
  LET merged == [key \in DOMAIN defaults |-> merge_config(defaults, user_config, key)]
  IN  IF env_overrides THEN apply_env_overrides(merged, environ) ELSE merged

\* Config.DEFAULT_CONFIG at the end of Config.__init__: DEFAULT_CONFIG.copy()
\* is shallow, so self.config and DEFAULT_CONFIG hold the same dictionaries
\* under the keys of DictKeys, and what was changed in place is changed for
\* both; a key set anew in self.config leaves DEFAULT_CONFIG as it was
defaults_after_init(defaults, user_config, environ, env_overrides) ==
  [key \in DOMAIN defaults |->
     IF key \in DictKeys
     THEN init_config(defaults, user_config, environ, env_overrides)[key]
     ELSE defaults[key]]


\* a variant of get_branch_config that returns the last matching entry
get_branch_config_last_match(self, branch_name) ==
  LET hits == {i \in 1..Len(self.branches) : wildmatch(self.branches[i].name, branch_name)}
  IN  IF hits = {} THEN None
      ELSE Some(self.branches[CHOOSE i \in hits : \A j \in hits : i >= j])

\* Config.get_branch_config: Some(branch config) or None
get_branch_config(self, branch_name) ==
  LET hits == {i \in 1..Len(self.branches) : wildmatch(self.branches[i].name, branch_name)}
  IN  IF hits = {} THEN None
      ELSE Some(self.branches[CHOOSE i \in hits : \A j \in hits : i <= j])

\* Config.get_commit_type: Some(commit type config) or None
get_commit_type(self, commit_type) ==
  LET types == self.commit_types
      direct == {i \in 1..Len(types) : types[i].name = commit_type}
      aliased == {i \in 1..Len(types) :
                    \E k \in 1..Len(types[i].aliases) : types[i].aliases[k] = commit_type}
  IN  IF direct # {} THEN Some(types[CHOOSE i \in direct : TRUE])
      ELSE IF aliased # {} THEN Some(types[CHOOSE i \in aliased : \A j \in aliased : i <= j])
      ELSE None

\* ------------------------------------------------------------------------
\* git_helper.GitHelper over the tag ledger (a set of tag names)
\* ------------------------------------------------------------------------
\* the lines `git tag -l` prints: ref names in byte-wise ascending order
RECURSIVE sorted_tags(_)
sorted_tags(S) ==
  IF S = {} THEN <<>>
  ELSE LET m == CHOOSE x \in S : \A y \in S \ {x} : text_less(x, y)
       IN  <<m>> \o sorted_tags(S \ {m})

get_tags_matching(ledger, pattern) ==
  sorted_tags({t \in ledger : wildmatch(pattern, t)})

\* ------------------------------------------------------------------------
\* version_calc.VersionCalculator
\* ------------------------------------------------------------------------
\* the sort key of _get_latest_stable_version, compared as Python tuples
key_less(a, b) ==
  \/ a.major < b.major
  \/ a.major = b.major /\ a.minor < b.minor
  \/ a.major = b.major /\ a.minor = b.minor /\ a.patch < b.patch

\* the versions parsed from the tags, in order, that carry no prerelease
RECURSIVE stable_versions(_)
stable_versions(all_tags) ==
  LET kept(version) ==
        IF version # None /\ version[1].prerelease = None THEN <<version[1]>> ELSE <<>>
  IN  IF all_tags = <<>> THEN <<>>
      ELSE kept(Version_parse(Head(all_tags))) \o stable_versions(Tail(all_tags))

\* sort(key, reverse=True)[0]: the first, in list order, of the versions
\* with the greatest key (the sort is stable)
get_latest_stable_version(ledger) ==
  LET first_of_sorted(stable_versions_) ==
        IF stable_versions_ = <<>> THEN None
        ELSE Some(stable_versions_[CHOOSE i \in 1..Len(stable_versions_) :
                    /\ \A j \in 1..Len(stable_versions_) :
                         ~key_less(stable_versions_[i], stable_versions_[j])
                    /\ \A j \in 1..(i-1) : key_less(stable_versions_[j], stable_versions_[i])])
  IN  first_of_sorted(stable_versions(get_tags_matching(ledger, <<"*">>)))

\* the counters _get_prerelease_counter extracts from the matching tags
RECURSIVE counters_of(_, _)
counters_of(matching_tags, prerelease_id) ==
  LET counter_of_parts(parts) ==
        IF Len(parts) >= 2 /\ parts[1] = prerelease_id /\ py_int(parts[2]) # None
        THEN {py_int(parts[2])[1]} ELSE {}
      counter_of(version) ==
        IF version # None /\ Truthy(version[1].prerelease)
        THEN counter_of_parts(split(version[1].prerelease[1], "."))
        ELSE {}
  IN  IF matching_tags = <<>> THEN {}
      ELSE counter_of(Version_parse(Head(matching_tags)))
             \cup counters_of(Tail(matching_tags), prerelease_id)

\* get_prerelease_counter as it would be if it counted the matching tags
\* instead of reading their counters
get_prerelease_counter_by_count(ledger, base_version, prerelease_id) ==
  LET pattern == Version_str(base_version) \o <<"-">> \o prerelease_id \o <<".","*">>
  IN  Len(get_tags_matching(ledger, pattern)) + 1

get_prerelease_counter(ledger, base_version, prerelease_id) ==
  LET next_counter(matching_tags, counters) ==
        IF matching_tags = <<>> THEN 1
        ELSE IF counters # {} THEN (CHOOSE c \in counters : \A d \in counters : d <= c) + 1
        ELSE 1
      of_tags(matching_tags) ==
        next_counter(matching_tags, counters_of(matching_tags, prerelease_id))
      pattern == Version_str(base_version) \o <<"-">> \o prerelease_id \o <<".","*">>
  IN  of_tags(get_tags_matching(ledger, pattern))

calculate_prerelease_version(ledger, max_bump, prerelease_id) ==
  LET stable_version(latest) == IF latest = None THEN Version(0, 0, 0) ELSE latest[1]
      prerelease_of(next_base_version) ==
        with_prerelease(next_base_version, prerelease_id,
                        get_prerelease_counter(ledger, next_base_version, prerelease_id))
  IN  prerelease_of(bump(stable_version(get_latest_stable_version(ledger)), max_bump))

\* calculate_next_version as it would be if the stable path bumped
\* current_version in place, keeping its prerelease and build parts
calculate_next_version_keeping_suffix(self, ledger, current_version, branch_name, max_bump) ==
  LET bumped_in_place(base_version) ==
        Some([bump(base_version, max_bump) EXCEPT !.prerelease = base_version.prerelease,
                                                  !.build = base_version.build])
      of_branch(branch_config) ==
        IF branch_config = None THEN None
        ELSE IF max_bump = NONE THEN None
        ELSE IF Truthy(branch_config[1].prerelease)
             THEN Some(calculate_prerelease_version(ledger, max_bump, branch_config[1].prerelease[1]))
        ELSE bumped_in_place(IF current_version = None THEN Version(0, 0, 0)
                             ELSE current_version[1])
  IN  of_branch(get_branch_config(self, branch_name))

\* calculate_next_version as it would be without the early return for
\* max_bump = NONE
calculate_next_version_without_none_check(self, ledger, current_version, branch_name, max_bump) ==
  LET base_version == IF current_version = None THEN Version(0, 0, 0)
                      ELSE Version(current_version[1].major,
                                   current_version[1].minor,
                                   current_version[1].patch)
      of_branch(branch_config) ==
        IF branch_config = None THEN None
        ELSE IF Truthy(branch_config[1].prerelease)
             THEN Some(calculate_prerelease_version(ledger, max_bump, branch_config[1].prerelease[1]))
        ELSE Some(bump(base_version, max_bump))
  IN  of_branch(get_branch_config(self, branch_name))

\* VersionCalculator.calculate_next_version: Some(version) or None
calculate_next_version(self, ledger, current_version, branch_name, max_bump) ==
  LET base_version == IF current_version = None THEN Version(0, 0, 0)
                      ELSE Version(current_version[1].major,
                                   current_version[1].minor,
                                   current_version[1].patch)
      of_branch(branch_config) ==
        IF branch_config = None THEN None
        ELSE IF max_bump = NONE THEN None
        ELSE IF Truthy(branch_config[1].prerelease)
             THEN Some(calculate_prerelease_version(ledger, max_bump, branch_config[1].prerelease[1]))
        ELSE Some(bump(base_version, max_bump))
  IN  of_branch(get_branch_config(self, branch_name))

\* VersionCalculator.get_current_version(stable_only=True)
get_current_version_stable(ledger) == get_latest_stable_version(ledger)

\* `git tag --sort=version:refname` compares ref names with versioncmp, the
\* strverscmp state machine: runs of digits that do not start with '0' are
\* compared as integers, runs that start with '0' as fractions, everything
\* else byte by byte.  NUL stands for the end of a name.
NUL == "NUL"

CharAt(s, i) == IF i <= Len(s) THEN s[i] ELSE NUL

CharOrd(c) == IF c = NUL THEN 0 ELSE Ord(c)

\* the class of a character: "0", "d" for another digit, "x" for the rest
CharClass(c) == IF c = "0" THEN "0" ELSE IF c # NUL /\ IsDigit(c) THEN "d" ELSE "x"

\* next_state[] of versioncmp: the state after a character of the class
\* that is the same in both names
versioncmp_next_state(state, class) ==
  CASE class = "x" -> "S_N"
    [] state = "S_N" -> IF class = "d" THEN "S_I" ELSE "S_Z"
    [] state = "S_I" -> "S_I"
    [] state = "S_F" -> "S_F"
    [] state = "S_Z" -> IF class = "d" THEN "S_F" ELSE "S_Z"
    [] OTHER -> "S_N"

\* result_type[] of versioncmp for the state at the first difference and the
\* class of the second name's character
versioncmp_result_type(state, class1, class2) ==
  CASE state = "S_N" ->
         IF class1 = "d" /\ class2 = "d" THEN "LEN" ELSE "CMP"
    [] state = "S_I" ->
         IF class1 = "x" THEN (IF class2 = "x" THEN "CMP" ELSE "-1")
         ELSE IF class2 = "x" THEN "+1"
         ELSE "LEN"
    [] state = "S_F" -> "CMP"
    [] state = "S_Z" ->
         IF class1 = "x" THEN (IF class2 = "x" THEN "CMP" ELSE "+1")
         ELSE IF class2 = "x" THEN "-1"
         ELSE "CMP"
    [] OTHER -> "CMP"

\* versioncmp(s1, s2) from position i on, the names being equal before it:
\* -1, 0 or 1
RECURSIVE versioncmp_from(_, _, _, _)
versioncmp_from(s1, s2, i, state) ==
  LET sign(diff) == IF diff < 0 THEN -1 ELSE IF diff > 0 THEN 1 ELSE 0
      by_length(diff, run1, run2) ==
        IF run1 > run2 THEN 1 ELSE IF run2 > run1 THEN -1 ELSE sign(diff)
      decide(kind, diff) ==
        CASE kind = "CMP" -> sign(diff)
          [] kind = "LEN" -> by_length(diff, RunEnd(s1, i + 1, IsDigit), RunEnd(s2, i + 1, IsDigit))
          [] kind = "+1" -> 1
          [] OTHER -> -1
      step(c1, c2) ==
        IF c1 = c2
        THEN IF c1 = NUL THEN 0
             ELSE versioncmp_from(s1, s2, i + 1, versioncmp_next_state(state, CharClass(c1)))
        ELSE decide(versioncmp_result_type(state, CharClass(c1), CharClass(c2)),
                    CharOrd(c1) - CharOrd(c2))
  IN  step(CharAt(s1, i), CharAt(s2, i))

versioncmp(s1, s2) == versioncmp_from(s1, s2, 1, "S_N")

\* GitHelper.get_latest_tag(): the first line of
\* `git tag -l --sort=-version:refname`, Some(tag) or None
get_latest_tag(ledger) ==
  IF ledger = {} THEN None
  ELSE Some(CHOOSE t \in ledger : \A u \in ledger \ {t} : versioncmp(u, t) < 0)

\* a variant of get_current_version that goes on to the next tag when the
\* latest one does not parse
get_current_version_with_fallback(ledger, stable_only) ==
  LET parseable == {t \in ledger : Version_parse(t) # None}
  IN  IF stable_only THEN get_latest_stable_version(ledger)
      ELSE IF parseable = {} THEN None
      ELSE Version_parse(get_latest_tag(parseable)[1])

\* VersionCalculator.get_current_version(stable_only)
get_current_version(ledger, stable_only) ==
  LET of_tag(latest_tag) == IF latest_tag = None THEN None ELSE Version_parse(latest_tag[1])
  IN  IF stable_only THEN get_latest_stable_version(ledger)
      ELSE of_tag(get_latest_tag(ledger))

\* str.replace(old, new): every occurrence, left to right
RECURSIVE replace(_, _, _)
replace(s, old, new) ==
  IF Len(s) < Len(old) THEN s
  ELSE IF SubSeq(s, 1, Len(old)) = old
       THEN new \o replace(SubSeq(s, Len(old) + 1, Len(s)), old, new)
  ELSE <<Head(s)>> \o replace(Tail(s), old, new)

format_tag(self, version) == replace(self.tag_format, <<"$","{","v","e","r","s","i","o","n","}">>, Version_str(version))


\* ------------------------------------------------------------------------
\* commit_parser.ConventionalCommitParser
\* ------------------------------------------------------------------------
ParsedCommit(sha, type, scope, subject, body, breaking, bump_) ==
  [sha |-> sha, type |-> type, scope |-> scope, subject |-> subject, body |-> body,
   breaking |-> breaking, bump |-> bump_]

\* COMMIT_PATTERN.match(header):
\*   ^(?P<type>\w+)(?:\((?P<scope>[^)]+)\))?\s*:\s*(?P<subject>.+)$
\* Some([type, scope, subject]) or None.  Every greedy run is followed by a
\* character outside its class, so a match takes each run whole; only the
\* \s* before the subject gives a character back when it ran to the end.
COMMIT_PATTERN_match(header) ==
  LET n == Len(header)
      t1 == RunEnd(header, 1, IsWord)
      opens == t1 + 1 <= n /\ header[t1 + 1] = "("
      s1 == RunEnd(header, t1 + 2, NotCloseParen)
      scoped == opens /\ s1 >= t1 + 2 /\ s1 + 1 <= n
      after == IF scoped THEN s1 + 1 ELSE t1
      w1 == RunEnd(header, after + 1, IsSpace)
      w2 == RunEnd(header, w1 + 2, IsSpace)
      start == IF w2 = n THEN n ELSE w2 + 1
      matched ==
        /\ t1 >= 1
        /\ (opens => scoped)
        /\ w1 + 1 <= n /\ header[w1 + 1] = ":"
        /\ w1 + 2 <= n
        /\ \A k \in start..n : header[k] # "\n"
  IN  IF ~matched THEN None
      ELSE Some([type |-> SubSeq(header, 1, t1),
                 scope |-> IF scoped THEN Some(SubSeq(header, t1 + 2, s1)) ELSE None,
                 subject |-> SubSeq(header, start, n)])

\* the tail `\s*(.+)` of both BREAKING_PATTERNS at position i of the body:
\* after a run of whitespace there is a character other than a newline
BreakingTail(body, i) ==
  \E j \in i..Len(body) :
    /\ \A k \in i..(j-1) : IsSpace(body[k])
    /\ body[j] # "\n"

\* BREAKING_PATTERNS[0].search(body):  BREAKING[- ]CHANGE:\s*(.+)  (IGNORECASE)
BREAKING_PATTERN_footer(body) ==
  \E i \in 1..Len(body) :
    /\ i + 15 <= Len(body)
    /\ lower(SubSeq(body, i, i + 7)) = <<"b","r","e","a","k","i","n","g">>
    /\ body[i + 8] \in {"-", " "}
    /\ lower(SubSeq(body, i + 9, i + 15)) = <<"c","h","a","n","g","e",":">>
    /\ BreakingTail(body, i + 16)

\* BREAKING_PATTERNS[1].search(body):  ^(\w+)(?:\([^)]+\))?!:\s*(.+)$  (MULTILINE)
BREAKING_PATTERN_bang(body) ==
  \E i \in 1..Len(body) :
    /\ (i = 1 \/ body[i - 1] = "\n")
    /\ LET n == Len(body)
           t1 == RunEnd(body, i, IsWord)
           opens == t1 + 1 <= n /\ body[t1 + 1] = "("
           s1 == RunEnd(body, t1 + 2, NotCloseParen)
           scoped == opens /\ s1 >= t1 + 2 /\ s1 + 1 <= n
           after == IF scoped THEN s1 + 1 ELSE t1
       IN  /\ t1 >= i
           /\ (opens => scoped)
           /\ after + 2 <= n
           /\ body[after + 1] = "!"
           /\ body[after + 2] = ":"
           /\ BreakingTail(body, after + 3)

\* ConventionalCommitParser._is_breaking
is_breaking(header, body) ==
  \/ InSeq("!", split(header, ":")[1])
  \/ BREAKING_PATTERN_footer(body)
  \/ BREAKING_PATTERN_bang(body)

\* a variant of determine_bump that maps the type before looking at the
\* breaking flag, so that a configured type keeps its own severity
determine_bump_type_first(self, commit_type, breaking) ==
  LET type_config == get_commit_type(self, commit_type)
  IN  IF type_config # None /\ type_config[1].bump \in {"major", "minor", "patch"}
      THEN type_config[1].bump
      ELSE IF breaking THEN MAJOR ELSE NONE

\* a variant of determine_bump that knows the configured names but not
\* their aliases
determine_bump_without_aliases(self, commit_type, breaking) ==
  LET named == {i \in 1..Len(self.commit_types) : self.commit_types[i].name = commit_type}
  IN  IF breaking THEN MAJOR
      ELSE IF named = {} THEN NONE
      ELSE LET b == self.commit_types[CHOOSE i \in named : TRUE].bump
           IN  IF b \in {"major", "minor", "patch"} THEN b ELSE NONE

\* ConventionalCommitParser._determine_bump
determine_bump(self, commit_type, breaking) ==
  IF breaking THEN MAJOR
  ELSE LET type_config == get_commit_type(self, commit_type)
       IN  IF type_config = None THEN NONE
           ELSE IF type_config[1].bump \in {"major", "minor", "patch"} THEN type_config[1].bump
           ELSE NONE

\* ConventionalCommitParser.parse: Some(parsed commit) or None
parse(self, commit_message, commit_sha) ==
  LET lines == split(strip(commit_message), "\n")
      header == strip(lines[1])
      match == COMMIT_PATTERN_match(header)
      commit_type == lower(match[1].type)
      body == strip(join(Tail(lines), <<"\n">>))
      breaking == is_breaking(header, body)
  IN  IF match = None THEN None
      ELSE Some(ParsedCommit(commit_sha, commit_type, match[1].scope, strip(match[1].subject),
                             body, breaking, determine_bump(self, commit_type, breaking)))

\* a variant of parse_commits that puts each parsed commit in front of the
\* ones parsed before it
RECURSIVE parse_commits_newest_first(_, _)
parse_commits_newest_first(self, commits) ==
  IF commits = <<>> THEN <<>>
  ELSE parse_commits_newest_first(self, Tail(commits)) \o parse(self, commits[1][2], commits[1][1])

\* ConventionalCommitParser.parse_commits over a list of <<sha, message>>
RECURSIVE parse_commits(_, _)
parse_commits(self, commits) ==
  IF commits = <<>> THEN <<>>
  ELSE parse(self, commits[1][2], commits[1][1]) \o parse_commits(self, Tail(commits))

bump_priority(b) ==
  CASE b = MAJOR -> 3 [] b = MINOR -> 2 [] b = PATCH -> 1 [] OTHER -> 0

\* the loop of get_max_bump: commits left to visit, and the running maximum
RECURSIVE max_bump_loop(_, _, _)
max_bump_loop(commits, max_bump, max_priority) ==
  IF commits = <<>> THEN max_bump
  ELSE IF bump_priority(commits[1].bump) > max_priority
       THEN max_bump_loop(Tail(commits), commits[1].bump, bump_priority(commits[1].bump))
  ELSE max_bump_loop(Tail(commits), max_bump, max_priority)

\* a variant of get_max_bump that returns the bump of the last commit that
\* has one
RECURSIVE get_max_bump_last_wins(_)
get_max_bump_last_wins(commits) ==
  IF commits = <<>> THEN NONE
  ELSE IF commits[Len(commits)].bump # NONE THEN commits[Len(commits)].bump
  ELSE get_max_bump_last_wins(SubSeq(commits, 1, Len(commits) - 1))

\* ConventionalCommitParser.get_max_bump
get_max_bump(commits) == max_bump_loop(commits, NONE, 0)


\* ------------------------------------------------------------------------
\* commit_validator.ValidationLevel and ValidationResult
\* ------------------------------------------------------------------------
ERROR == "error"

WARNING == "warning"

INFO == "info"

\* a finding; `message` is the fixed part of its text, `line` None or Some(n)
ValidationResult(level, message, line) == [level |-> level, message |-> message, line |-> line]

is_error(r) == r.level = ERROR

is_warning(r) == r.level = WARNING

\* ------------------------------------------------------------------------
\* commit_validator.CommitMessageValidator
\* ------------------------------------------------------------------------
\* config.config.get('validation', {}) with the defaults the checks read
ValidationConfig(subject_min_length, subject_max_length, subject_lowercase, header_max_length, body_max_line_length, allowed_scopes) ==
  [subject_min_length |-> subject_min_length, subject_max_length |-> subject_max_length,
   subject_lowercase |-> subject_lowercase, header_max_length |-> header_max_length,
   body_max_line_length |-> body_max_line_length, allowed_scopes |-> allowed_scopes]

\* no 'validation' section: every check reads its default
DEFAULT_VALIDATION == ValidationConfig(3, 100, TRUE, 100, 100, <<>>)

\* a 'validation' section of a user config.yaml with short limits and an
\* allow-list of scopes
USER_VALIDATION == ValidationConfig(3, 12, TRUE, 22, 10, <<<<"a","p","i">>>>)

\* CommitMessageValidator.COMMIT_PATTERN.match(header):
\*   ^(\w+)(?:\(([^)]+)\))?(!)?\s*:\s*(.+)$
\* Some([type, scope, breaking, subject]) or None.  t1 ends the type, s1
\* the scope group, b1 the breaking marker, w1 the whitespace before the
\* colon; each greedy run is followed by a character outside its class.
VALIDATOR_PATTERN_match(header) ==
  LET n == Len(header)
      \* the subject starts after the whitespace that follows the colon; a
      \* run of whitespace up to the end gives its last character back
      SubjectStart(w2) == IF w2 = n THEN n ELSE w2 + 1
      Result(t1, s1, b1, w1) ==
        IF /\ t1 >= 1
           /\ w1 + 1 <= n /\ header[w1 + 1] = ":"
           /\ w1 + 2 <= n
           /\ \A k \in SubjectStart(RunEnd(header, w1 + 2, IsSpace))..n : header[k] # "\n"
        THEN Some([type |-> SubSeq(header, 1, t1),
                   scope |-> IF s1 > t1 THEN Some(SubSeq(header, t1 + 2, s1 - 1)) ELSE None,
                   breaking |-> IF b1 > s1 THEN Some(<<"!">>) ELSE None,
                   subject |-> SubSeq(header, SubjectStart(RunEnd(header, w1 + 2, IsSpace)), n)])
        ELSE None
      AfterBreaking(t1, s1, b1) == Result(t1, s1, b1, RunEnd(header, b1 + 1, IsSpace))
      AfterScope(t1, s1) ==
        AfterBreaking(t1, s1, IF s1 + 1 <= n /\ header[s1 + 1] = "!" THEN s1 + 1 ELSE s1)
      \* the end of '(scope)' after the type, or t1 when the group does not match
      ScopeEnd(t1, c1) ==
        IF c1 >= t1 + 2 /\ c1 + 1 <= n /\ header[c1 + 1] = ")" THEN c1 + 1 ELSE t1
      AfterType(t1) ==
        AfterScope(t1, IF t1 + 1 <= n /\ header[t1 + 1] = "("
                       THEN ScopeEnd(t1, RunEnd(header, t1 + 2, NotCloseParen))
                       ELSE t1)
  IN  AfterType(RunEnd(header, 1, IsWord))

\* CommitMessageValidator.SCOPE_PATTERN.match(scope):  ^[a-zA-Z0-9_-]+$
SCOPE_PATTERN_match(scope) ==
  LET IsScopeChar(c) == (IsWord(c) \/ c = "-")
      matched(e) == e >= 1 /\ (e = Len(scope) \/ (e = Len(scope) - 1 /\ scope[Len(scope)] = "\n"))
  IN  matched(RunEnd(scope, 1, IsScopeChar))

\* the names and aliases of the configured commit types
allowed_types(self) ==
  {self.commit_types[i].name : i \in 1..Len(self.commit_types)}
    \cup UNION {{self.commit_types[i].aliases[k] : k \in 1..Len(self.commit_types[i].aliases)} :
                  i \in 1..Len(self.commit_types)}

validate_type(self, commit_type) ==
  IF commit_type \notin allowed_types(self)
  THEN <<ValidationResult(ERROR, "Invalid commit type", Some(1))>>
  ELSE <<>>

validate_scope(validation_config_, scope) ==
  (IF ~SCOPE_PATTERN_match(scope)
   THEN <<ValidationResult(ERROR, "Invalid scope format", Some(1))>> ELSE <<>>)
  \o (IF validation_config_.allowed_scopes # <<>> /\ ~InSeq(scope, validation_config_.allowed_scopes)
      THEN <<ValidationResult(WARNING, "Scope is not in allowed list", Some(1))>> ELSE <<>>)

\* str.isupper() of one character
isupper(c) == InSeq(c, UpperChars)

validate_subject(validation_config_, subject) ==
  (IF Len(subject) < validation_config_.subject_min_length
   THEN <<ValidationResult(ERROR, "Subject too short", Some(1))>> ELSE <<>>)
  \o (IF Len(subject) > validation_config_.subject_max_length
      THEN <<ValidationResult(ERROR, "Subject too long", Some(1))>> ELSE <<>>)
  \o (IF validation_config_.subject_lowercase /\ subject # <<>> /\ isupper(subject[1])
      THEN <<ValidationResult(WARNING, "Subject should start with lowercase letter", Some(1))>>
      ELSE <<>>)
  \o (IF subject # <<>> /\ subject[Len(subject)] = "."
      THEN <<ValidationResult(WARNING, "Subject should not end with a period", Some(1))>>
      ELSE <<>>)

validate_breaking_indicator ==
  <<ValidationResult(INFO, "Breaking change indicator (!) detected", Some(1))>>

validate_header_length(validation_config_, header) ==
  IF Len(header) > validation_config_.header_max_length
  THEN <<ValidationResult(ERROR, "Header too long", Some(1))>>
  ELSE <<>>

\* a variant of _validate_header that checks the header length first
validate_header_length_first(self, validation_config_, header) ==
  LET of_match(match) ==
        IF match = None
        THEN <<ValidationResult(ERROR, "Header does not match conventional commit format", Some(1)),
               ValidationResult(INFO, "Expected format: type(scope): subject or type: subject", Some(1))>>
        ELSE validate_header_length(validation_config_, header)
               \o validate_type(self, lower(match[1].type))
               \o (IF Truthy(match[1].scope)
                   THEN validate_scope(validation_config_, match[1].scope[1]) ELSE <<>>)
               \o validate_subject(validation_config_, strip(match[1].subject))
               \o (IF Truthy(match[1].breaking) THEN validate_breaking_indicator ELSE <<>>)
  IN  of_match(VALIDATOR_PATTERN_match(header))

\* CommitMessageValidator._validate_header
validate_header(self, validation_config_, header) ==
  LET of_match(match) ==
        IF match = None
        THEN <<ValidationResult(ERROR, "Header does not match conventional commit format", Some(1)),
               ValidationResult(INFO, "Expected format: type(scope): subject or type: subject", Some(1))>>
        ELSE validate_type(self, lower(match[1].type))
               \o (IF Truthy(match[1].scope)
                   THEN validate_scope(validation_config_, match[1].scope[1]) ELSE <<>>)
               \o validate_subject(validation_config_, strip(match[1].subject))
               \o (IF Truthy(match[1].breaking) THEN validate_breaking_indicator ELSE <<>>)
               \o validate_header_length(validation_config_, header)
  IN  of_match(VALIDATOR_PATTERN_match(header))

\* `needle in text` for str
contains(text, needle) ==
  \E i \in 1..(Len(text) - Len(needle) + 1) : SubSeq(text, i, i + Len(needle) - 1) = needle

\* the loop of _validate_body over body.split('\n'), numbered from 3
body_line_findings(validation_config_, body_lines) ==
  LET finding(k) ==
        IF Len(body_lines[k]) > validation_config_.body_max_line_length
        THEN <<ValidationResult(WARNING, "Body line too long", Some(k + 2))>> ELSE <<>>
      RECURSIVE from(_)
      from(k) == IF k > Len(body_lines) THEN <<>> ELSE finding(k) \o from(k + 1)
  IN  from(1)

\* CommitMessageValidator._validate_body
validate_body(validation_config_, body, total_lines) ==
  body_line_findings(validation_config_, split(body, "\n"))
    \o (IF contains(body, <<"B","R","E","A","K","I","N","G"," ","C","H","A","N","G","E",":">>) \/ contains(body, <<"B","R","E","A","K","I","N","G","-","C","H","A","N","G","E",":">>)
        THEN <<ValidationResult(INFO, "BREAKING CHANGE detected in body", None)>> ELSE <<>>)

\* a variant of validate that stops after the findings of a header that
\* does not match
validate_stopping_at_header(self, validation_config_, commit_message) ==
  LET of_lines(lines) ==
        IF VALIDATOR_PATTERN_match(strip(lines[1])) = None \/ Len(lines) <= 1
        THEN validate_header(self, validation_config_, strip(lines[1]))
        ELSE validate_header(self, validation_config_, strip(lines[1]))
               \o validate_body(validation_config_, strip(join(Tail(lines), <<"\n">>)), Len(lines))
  IN  of_lines(split(strip(commit_message), "\n"))

\* CommitMessageValidator.validate: the findings, in order
validate(self, validation_config_, commit_message) ==
  LET of_body(body, total_lines) ==
        IF body # <<>> THEN validate_body(validation_config_, body, total_lines) ELSE <<>>
      of_lines(lines) ==
        IF lines = <<>>
        THEN <<ValidationResult(ERROR, "Commit message is empty", None)>>
        ELSE validate_header(self, validation_config_, strip(lines[1]))
               \o (IF Len(lines) > 1
                   THEN of_body(strip(join(Tail(lines), <<"\n">>)), Len(lines))
                   ELSE <<>>)
  IN  of_lines(split(strip(commit_message), "\n"))

\* a variant of is_valid that lets no finding but INFO pass
is_valid_without_warnings(self, validation_config_, commit_message) ==
  LET none_fails(results_) ==
        ~\E i \in 1..Len(results_) : is_error(results_[i]) \/ is_warning(results_[i])
  IN  none_fails(validate(self, validation_config_, commit_message))

\* CommitMessageValidator.is_valid
is_valid(self, validation_config_, commit_message) ==
  LET no_error(results_) == ~\E i \in 1..Len(results_) : is_error(results_[i])
  IN  no_error(validate(self, validation_config_, commit_message))

\* one line of the text format_results returns: a heading, an item (the
\* message of a finding, and its line when it has one) or an empty line
FormatLine(text, line_info) == [text |-> text, line_info |-> line_info]

\* the item of one finding: "  * {message}{line_info}"
format_item(result) ==
  FormatLine(result.message, IF result.line # None /\ result.line[1] # 0 THEN result.line ELSE None)

\* the values of ValidationLevel
ValidationLevel == {ERROR, WARNING, INFO}

\* the items of the findings of a list with a level of levels, in list order
RECURSIVE format_items(_, _)
format_items(results_, levels) ==
  IF results_ = <<>> THEN <<>>
  ELSE (IF Head(results_).level \in levels THEN <<format_item(Head(results_))>> ELSE <<>>)
         \o format_items(Tail(results_), levels)

\* CommitMessageValidator.format_results: the lines of the text
format_results(results_) ==
  LET section(heading, items, closed) ==
        IF items = <<>> THEN <<>>
        ELSE <<FormatLine(heading, None)>> \o items
               \o (IF closed THEN <<FormatLine("", None)>> ELSE <<>>)
  IN  IF results_ = <<>>
      THEN <<FormatLine("Commit message is valid", None)>>
      ELSE section("Errors:", format_items(results_, {ERROR}), TRUE)
             \o section("Warnings:", format_items(results_, {WARNING}), TRUE)
             \o section("Info:", format_items(results_, ValidationLevel \ {ERROR, WARNING}), FALSE)

\* ------------------------------------------------------------------------
\* release.ReleaseOrchestrator
\* ------------------------------------------------------------------------
\* one call of create_release to git, the changelog or the platform, and
\* whether it succeeded
Call(op, ok) == [op |-> op, ok |-> ok]

\* what a run of create_release works on: the local tag ledger, the
\* changelog file (the versions of its entries, newest first), the remote
\* (tags, commits pushed to the branch, platform releases), the calls made
\* so far and the status returned (None while the run goes on)
World(ledger, changelog_file, remote_, calls_, status_) ==
  [tags |-> ledger, changelog_file |-> changelog_file, remote |-> remote_,
   calls |-> calls_, status |-> status_]

called(w, op, ok) == [w EXCEPT !.calls = Append(@, Call(op, ok))]

returned(w, status_) == [w EXCEPT !.status = Some(status_)]

\* ReleaseOrchestrator.generate_version on the commits git lists since the
\* last tag: an error, no release, or the text of the next version
generate_version(self, branch_name, ledger, commits_data_) ==
  LET shown(current_version) ==
        IF current_version # None THEN Version_str(current_version[1]) ELSE <<"0",".","0",".","0">>
      no_release(current_version) ==
        [error |-> FALSE, no_release |-> TRUE, next_version |-> shown(current_version)]
      of_next(current_version, next_version_) ==
        IF next_version_ = None THEN no_release(current_version)
        ELSE [error |-> FALSE, no_release |-> FALSE,
              next_version |-> Version_str(next_version_[1])]
      of_current(current_version) ==
        IF commits_data_ = <<>> THEN no_release(current_version)
        ELSE of_next(current_version,
                     calculate_next_version(self, ledger, current_version, branch_name,
                                            get_max_bump(parse_commits(self, commits_data_))))
      of_branch(branch_config_) ==
        IF branch_config_ = None
        THEN [error |-> TRUE, no_release |-> FALSE, next_version |-> <<>>]
        ELSE of_current(get_current_version(ledger, branch_config_[1].prerelease = None))
  IN  of_branch(get_branch_config(self, branch_name))

\* create_release, the changelog step: on a stable branch changelog.update
\* writes the entry of the version; a failure ends the run
update_changelog(w, version_str_, outcome) ==
  IF outcome.changelog_ok
  THEN [called(w, "changelog.update", TRUE) EXCEPT !.changelog_file = <<version_str_>> \o @]
  ELSE returned(called(w, "changelog.update", FALSE), "failed")

\* create_release, the commit step: configure_push_url, then commit_files
\* and push_branch when the changelog was updated
commit_changelog(w, changelog_updated, outcome) ==
  LET pushed(v) ==
        IF outcome.push_branch_ok
        THEN [called(v, "push_branch", TRUE) EXCEPT !.remote.commits = @ + 1]
        ELSE called(v, "push_branch", FALSE)
      committed(v) ==
        IF ~changelog_updated THEN v
        ELSE IF outcome.commit_ok THEN pushed(called(v, "commit_files", TRUE))
        ELSE called(v, "commit_files", FALSE)
  IN  committed(called(w, "configure_push_url", outcome.configure_ok))

\* a variant of publish in which a tag that cannot be pushed fails the run
publish_failing_on_push(w, tag_name, release_api, outcome) ==
  LET released(v) ==
        IF ~release_api THEN v
        ELSE IF outcome.api = "created"
             THEN [called(v, "release_api.create_release", TRUE)
                     EXCEPT !.remote.releases = @ \cup {tag_name}]
             ELSE called(v, "release_api.create_release", FALSE)
      pushed(v) ==
        IF outcome.push_tag_ok
        THEN returned(released([called(v, "push_tag", TRUE) EXCEPT !.remote.tags = @ \cup {tag_name}]),
                      "success")
        ELSE returned(called(v, "push_tag", FALSE), "failed")
  IN  IF outcome.tag_ok /\ tag_name \notin w.tags
      THEN pushed([called(w, "create_tag", TRUE) EXCEPT !.tags = @ \cup {tag_name}])
      ELSE returned(called(w, "create_tag", FALSE), "failed")

\* create_release, the publishing steps: create_tag, whose failure ends the
\* run, then push_tag, then the release of the platform when there is an
\* API client; `git tag` fails on a name the ledger has
publish(w, tag_name, release_api, outcome) ==
  LET released(v) ==
        IF ~release_api THEN v
        ELSE IF outcome.api = "created"
             THEN [called(v, "release_api.create_release", TRUE)
                     EXCEPT !.remote.releases = @ \cup {tag_name}]
             ELSE called(v, "release_api.create_release", FALSE)
      pushed(v) ==
        IF outcome.push_tag_ok
        THEN [called(v, "push_tag", TRUE) EXCEPT !.remote.tags = @ \cup {tag_name}]
        ELSE called(v, "push_tag", FALSE)
  IN  IF outcome.tag_ok /\ tag_name \notin w.tags
      THEN returned(released(pushed([called(w, "create_tag", TRUE)
                                       EXCEPT !.tags = @ \cup {tag_name}])),
                    "success")
      ELSE returned(called(w, "create_tag", FALSE), "failed")

\* ReleaseOrchestrator.create_release: the world at its return
create_release(self, dry_run_, release_api, branch_name, w, commits_data_, outcome) ==
  LET after_changelog(v, is_stable_branch, tag_name) ==
        IF v.status # None THEN v
        ELSE IF dry_run_ THEN returned(v, "dry-run")
        ELSE publish(commit_changelog(v, is_stable_branch, outcome), tag_name,
                     release_api, outcome)
      of_version(next_version_, is_stable_branch) ==
        IF next_version_ = None THEN returned(w, "ValueError")
        ELSE after_changelog(IF is_stable_branch
                             THEN update_changelog(w, Version_str(next_version_[1]), outcome)
                             ELSE w,
                             is_stable_branch, format_tag(self, next_version_[1]))
      is_stable(branch_config_) == branch_config_ # None /\ branch_config_[1].prerelease = None
      of_info(version_info) ==
        IF version_info.error THEN returned(w, "failed")
        ELSE IF version_info.no_release THEN returned(w, "skipped")
        ELSE of_version(Version_parse(version_info.next_version),
                        is_stable(get_branch_config(self, branch_name)))
  IN  of_info(generate_version(self, branch_name, w.tags, commits_data_))

\* ------------------------------------------------------------------------
\* Vocabulary of the properties of the version calculator
\* ------------------------------------------------------------------------
Triple(v) == <<v.major, v.minor, v.patch>>

TripleLess(a, b) ==
  \/ a[1] < b[1]
  \/ a[1] = b[1] /\ a[2] < b[2]
  \/ a[1] = b[1] /\ a[2] = b[2] /\ a[3] < b[3]

\* (major, minor, patch) after a bump, as the bump table of the design states it
Bumped(t, severity) ==
  CASE severity = MAJOR -> <<t[1] + 1, 0, 0>>
    [] severity = MINOR -> <<t[1], t[2] + 1, 0>>
    [] severity = PATCH -> <<t[1], t[2], t[3] + 1>>
    [] OTHER -> t

\* the greatest (major, minor, patch) among the tags of a ledger that parse
\* as versions without a prerelease part, (0, 0, 0) if there is none
GreatestStable(ledger) ==
  LET triples == {Triple(Version_parse(t)[1]) :
                    t \in {u \in ledger : /\ Version_parse(u) # None
                                          /\ Version_parse(u)[1].prerelease = None}}
  IN  IF triples = {} THEN <<0, 0, 0>>
      ELSE CHOOSE a \in triples : \A b \in triples : ~TripleLess(a, b)

TripleText(t) == int_to_str(t[1]) \o <<".">> \o int_to_str(t[2]) \o <<".">> \o int_to_str(t[3])

StartsWith(t, prefix) == Len(t) >= Len(prefix) /\ SubSeq(t, 1, Len(prefix)) = prefix

NotDotOrPlus(c) == c \notin {".", "+"}

\* the counter of a tag of the form <prefix><counter>: the text between the
\* prefix and the next '.' or '+' (or the end of the tag)
CounterText(t, prefix) ==
  LET rest == SubSeq(t, Len(prefix) + 1, Len(t))
  IN  SubSeq(rest, 1, RunEnd(rest, 1, NotDotOrPlus))

\* the numeric counters of the version tags of the form <prefix><counter>
CountersOfForm(ledger, prefix) ==
  {py_int(CounterText(t, prefix))[1] :
     t \in {u \in ledger : /\ StartsWith(u, prefix)
                           /\ Version_parse(u) # None
                           /\ py_int(CounterText(u, prefix)) # None}}

NextCounter(ledger, prefix) ==
  LET cs == CountersOfForm(ledger, prefix)
  IN  IF cs = {} THEN 1 ELSE (CHOOSE c \in cs : \A d \in cs : d <= c) + 1

\* the identifier and the counter of a prerelease version made by this program
PrereleaseParts(v) == split(v.prerelease[1], ".")

\* ------------------------------------------------------------------------
\* Inputs of the version calculator
\* ------------------------------------------------------------------------
\* tag names that other releases, people and tools have put in the ledger
TagPool ==
  { <<"1",".","2",".","0">>, <<"v","1",".","1","0",".","0">>, <<"l","a","t","e","s","t">>,
    <<"1",".","2",".","1","-","d","e","v",".","2">>,
    <<"0",".","0",".","1","-","d","e","v",".","9">>, <<"0",".","0",".","1","-","d","e","v",".","1","0">>, <<"0",".","0",".","1","-","b","e","t","a",".","4">>, <<"0",".","0",".","1","-","d","e","v",".","x">>, <<"0",".","0",".","1","-","d","e","v",".","3","+","b","1">> }

\* branches the release job runs on
BranchNames == { <<"m","a","i","n">>, <<"d","e","v">>, <<"x","/","b","e","t","a">> }

\* a version a caller passes as current_version, next to the ledger's own
CurrentVersions ==
  { Some([major |-> 1, minor |-> 2, patch |-> 3, prerelease |-> Some(<<"r","c",".","1">>), build |-> Some(<<"b","5">>)]) }

\* the configuration by default and as a user's config.yaml sets it
Configs ==
  { Config(DEFAULT_BRANCHES, DEFAULT_COMMIT_TYPES, DEFAULT_TAG_FORMAT),
    Config(USER_BRANCHES, update_entries(DEFAULT_COMMIT_TYPES, USER_COMMIT_TYPES), USER_TAG_FORMAT) }

\* ------------------------------------------------------------------------
\* Inputs of the commit parser
\* ------------------------------------------------------------------------
HeaderTypes == { <<"f","e","a","t">>, <<"f","i","x">>, <<"F","e","a","t","u","r","e">>, <<"h","o","t","f","i","x">>, <<"d","o","c","s">>, <<"a","d","d">> }

HeaderScopes == { <<>>, <<"(","a","p","i",")">>, <<"(","a","!","b",")">>, <<"(",")">> }

HeaderMarks == { <<>>, <<"!">> }

HeaderSeparators == { <<":"," ">>, <<":">>, <<" ",":"," ">> }

Subjects == { <<"d","r","o","p"," ","a","p","i">>, <<>> }

Bodies ==
  { <<>>,
    <<"\n","\n","m","o","r","e"," ","t","e","x","t">>,
    <<"\n","\n","B","R","E","A","K","I","N","G"," ","C","H","A","N","G","E",":"," ","y">>,
    <<"\n","b","r","e","a","k","i","n","g","-","c","h","a","n","g","e",":"," ","y">>,
    <<"\n","\n","n","o","t","e"," ","B","R","E","A","K","I","N","G"," ","C","H","A","N","G","E",":"," ","y">>,
    <<"\n","\n","B","R","E","A","K","I","N","G"," ","C","H","A","N","G","E",":">>,
    <<"\n","\n","B","R","E","A","K","I","N","G"," ","C","H","A","N","G","E",":","\n","y">>,
    <<"\n","\n","B","R","E","A","K","I","N","G","_","C","H","A","N","G","E",":"," ","y">>,
    <<"\n","\n","f","i","x","!",":"," ","z">> }

\* full commit messages: header, and a body after it
Messages ==
  { t \o s \o m \o p \o j \o b :
      t \in HeaderTypes, s \in HeaderScopes, m \in HeaderMarks,
      p \in HeaderSeparators, j \in Subjects, b \in Bodies }
  \cup { <<"u","p","d","a","t","e"," ","s","t","u","f","f">>, <<>>, <<" "," ","f","i","x",":"," ","x","\n">> }

\* the messages of the commits `git log` lists since the last tag
LogMessages ==
  { <<"f","e","a","t","(","a","p","i",")",":"," ","a","d","d"," ","e","n","d","p","o","i","n","t">>, <<"f","i","x",":"," ","n","u","l","l"," ","c","h","e","c","k">>, <<"d","o","c","s",":"," ","r","e","a","d","m","e">>,
    <<"f","i","x",":"," ","x","\n","\n","B","R","E","A","K","I","N","G"," ","C","H","A","N","G","E",":"," ","y">>, <<"u","p","d","a","t","e"," ","s","t","u","f","f">>, <<"f","e","a","t","!",":"," ","d","r","o","p"," ","o","l","d"," ","a","p","i">> }

Shas == << <<"a","1">>, <<"b","2">>, <<"c","3">>, <<"d","4">>, <<"e","5">> >>

\* the lists of <<sha, message>> of at most MaxCommits commits
CommitLists ==
  UNION { { [i \in 1..n |-> <<Shas[i], f[i]>>] : f \in [1..n -> LogMessages] } : n \in 0..MaxCommits }


\* ------------------------------------------------------------------------
\* State
\* ------------------------------------------------------------------------
VARIABLES
  config,          \* the Config every component is constructed with
  pc,              \* where the run stands
  branch,          \* the branch the release job runs on (git.get_current_branch())
  tags,            \* the tag ledger: the names of the tags of the repository
  calc_args,       \* arguments of the calculate_next_version call of the run
  next_version,    \* its result: Some(version) or None
  last_release,    \* Some(record of the last tag this program created) or None
  releases,        \* number of tags this program created
  commit_message,  \* the message given to parse
  parsed,          \* the result of parse: Some(parsed commit) or None
  commits_data,    \* the <<sha, message>> list given to parse_commits
  parsed_commits,  \* the result of parse_commits
  max_bump,        \* the result of get_max_bump
  version_str,     \* the text given to Version.parse
  version,         \* the result of Version.parse: Some(version), None for ValueError
  rendered,        \* str(version)
  bumped,          \* Some(argument and result of version.bump), None before the call
  branch_config,   \* the result of get_branch_config: Some(branch config) or None
  tag_version,     \* the result of get_current_version: Some(version) or None
  latest_tag,      \* Some(tag name generate_version starts the commit range at) or None
  validation_config, \* the validator's validation_config
  results,         \* the findings validate returned
  valid,           \* Some(result of is_valid) or None
  formatted,       \* the lines format_results returned
  exit_code,       \* Some(exit status of the validate action) or None
  DEFAULT_CONFIG,  \* the class attribute Config.DEFAULT_CONFIG
  self_config,     \* self.config of the Config constructed last
  init_args,       \* Some(arguments and environment of that construction) or None
  dry_run,         \* the orchestrator's dry_run
  release_api,     \* whether the orchestrator has a platform API client
  changelog_file,  \* the changelog file: the versions of its entries, newest first
  remote,          \* the remote: tags, commits pushed to the branch, platform releases
  calls,           \* the calls create_release made, in order, each with its success
  status,          \* Some(status create_release returned) or None
  before           \* Some(the world when create_release was called) or None

calc_vars == <<branch, tags, calc_args, next_version, last_release, releases>>

parser_vars == <<commit_message, parsed, commits_data, parsed_commits, max_bump>>

version_vars == <<version_str, version, rendered, bumped>>

lookup_vars == <<branch_config, tag_version, latest_tag>>

validator_vars == <<validation_config, results, valid, formatted, exit_code>>

config_vars == <<DEFAULT_CONFIG, self_config, init_args>>

release_vars == <<dry_run, release_api, changelog_file, remote, calls, status, before>>

unit_vars == <<version_vars, lookup_vars, validator_vars, config_vars, release_vars>>

vars == <<config, pc, calc_vars, parser_vars, unit_vars>>

NoArgs == [current_version |-> None, branch_name |-> <<>>, max_bump |-> NONE]

\* no version calculation under way
CalcIdle ==
  /\ tags = {}
  /\ calc_args = NoArgs
  /\ next_version = None
  /\ last_release = None
  /\ releases = 0

\* no parsing under way
ParserIdle ==
  /\ commit_message = <<>>
  /\ parsed = None
  /\ commits_data = <<>>
  /\ parsed_commits = <<>>
  /\ max_bump = NONE

\* no Version under work
VersionIdle ==
  /\ version_str = <<>>
  /\ version = None
  /\ rendered = <<>>
  /\ bumped = None

\* no lookup made
LookupIdle ==
  /\ branch_config = None
  /\ tag_version = None
  /\ latest_tag = None

\* no validation under way
ValidatorIdle ==
  /\ validation_config = DEFAULT_VALIDATION
  /\ results = <<>>
  /\ valid = None
  /\ formatted = <<>>
  /\ exit_code = None

\* no Config constructed with overrides
ConfigIdle ==
  /\ DEFAULT_CONFIG = DEFAULT_CONFIG_LITERAL
  /\ self_config = DEFAULT_CONFIG_LITERAL
  /\ init_args = None

\* the remote before anything was pushed
NO_REMOTE == [tags |-> {}, commits |-> 0, releases |-> {}]

\* no create_release under way
ReleaseIdle ==
  /\ dry_run = FALSE
  /\ release_api = FALSE
  /\ changelog_file = <<>>
  /\ remote = NO_REMOTE
  /\ calls = <<>>
  /\ status = None
  /\ before = None

UnitsIdle == VersionIdle /\ LookupIdle /\ ValidatorIdle /\ ConfigIdle /\ ReleaseIdle

\* ------------------------------------------------------------------------
\* The release job: tag ledger and version calculation
\* ------------------------------------------------------------------------
Init ==
  /\ config \in Configs
  /\ branch \in BranchNames
  /\ pc = "idle"
  /\ CalcIdle
  /\ UnitsIdle
  /\ ParserIdle

\* between two runs a tag made elsewhere enters the ledger (it is fetched by
\* the `git fetch --tags` that opens the next run's tag scan)
FetchTag(t) ==
  /\ pc = "idle"
  /\ t \notin tags
  /\ Cardinality(tags) < MaxTags
  /\ tags' = tags \cup {t}
  /\ UNCHANGED <<config, branch, pc, calc_args, next_version, last_release, releases, parser_vars, unit_vars>>

\* a run calls calculate_next_version(commits, current_version, branch_name, max_bump)
CalculateNextVersion(current_version, bump_type) ==
  /\ pc = "idle"
  /\ calc_args' = [current_version |-> current_version, branch_name |-> branch,
                   max_bump |-> bump_type]
  /\ next_version' = calculate_next_version(config, tags, current_version, branch, bump_type)
  /\ pc' = "calculated"
  /\ UNCHANGED <<config, branch, tags, last_release, releases, parser_vars, unit_vars>>

\* ReleaseOrchestrator.create_release: the calculated version is rendered,
\* parsed again, formatted as a tag name, and the tag is created
CreateTag ==
  /\ pc = "calculated"
  /\ next_version # None
  /\ releases < MaxReleases
  /\ LET reparsed == Version_parse(Version_str(next_version[1]))
         tag_name == format_tag(config, reparsed[1])
     IN  /\ reparsed # None
         /\ tag_name \notin tags
         /\ tags' = tags \cup {tag_name}
         /\ last_release' = Some([version |-> next_version[1],
                                  max_bump |-> calc_args.max_bump,
                                  stable |-> GreatestStable(tags)])
  /\ pc' = "idle"
  /\ calc_args' = NoArgs
  /\ next_version' = None
  /\ releases' = releases + 1
  /\ UNCHANGED <<config, branch, parser_vars, unit_vars>>

\* the run ends without a tag: nothing to release, generate-only or dry-run
EndRun ==
  /\ pc = "calculated"
  /\ pc' = "idle"
  /\ calc_args' = NoArgs
  /\ next_version' = None
  /\ UNCHANGED <<config, branch, tags, last_release, releases, parser_vars, unit_vars>>

Next ==
  \/ \E t \in TagPool : FetchTag(t)
  \/ \E cv \in CurrentVersions \cup {get_current_version_stable(tags)}, mb \in BumpType :
       CalculateNextVersion(cv, mb)
  \/ CreateTag
  \/ EndRun

Spec == Init /\ [][Next]_vars

\* ------------------------------------------------------------------------
\* The parser on one commit message
\* ------------------------------------------------------------------------
InitParse ==
  /\ config \in Configs
  /\ branch = <<"m","a","i","n">>
  /\ pc = "message"
  /\ CalcIdle
  /\ UnitsIdle
  /\ commit_message \in Messages
  /\ parsed = None
  /\ commits_data = <<>>
  /\ parsed_commits = <<>>
  /\ max_bump = NONE

\* ConventionalCommitParser.parse(commit_message, commit_sha)
Parse ==
  /\ pc = "message"
  /\ parsed' = parse(config, commit_message, <<"c","3">>)
  /\ pc' = "parsed"
  /\ UNCHANGED <<config, calc_vars, commit_message, commits_data, parsed_commits, max_bump, unit_vars>>

NextParse == Parse

SpecParse == InitParse /\ [][NextParse]_vars

\* ------------------------------------------------------------------------
\* The parser on the commits since the last tag
\* ------------------------------------------------------------------------
InitBatch ==
  /\ config \in Configs
  /\ branch = <<"m","a","i","n">>
  /\ pc = "commits"
  /\ CalcIdle
  /\ UnitsIdle
  /\ commit_message = <<>>
  /\ parsed = None
  /\ commits_data \in CommitLists
  /\ parsed_commits = <<>>
  /\ max_bump = NONE

\* ConventionalCommitParser.parse_commits(commits)
ParseCommits ==
  /\ pc = "commits"
  /\ parsed_commits' = parse_commits(config, commits_data)
  /\ pc' = "parsed_commits"
  /\ UNCHANGED <<config, calc_vars, commit_message, parsed, commits_data, max_bump, unit_vars>>

\* ConventionalCommitParser.get_max_bump(commits)
GetMaxBump ==
  /\ pc = "parsed_commits"
  /\ max_bump' = get_max_bump(parsed_commits)
  /\ pc' = "max_bump"
  /\ UNCHANGED <<config, calc_vars, commit_message, parsed, commits_data, parsed_commits, unit_vars>>

NextBatch == ParseCommits \/ GetMaxBump

SpecBatch == InitBatch /\ [][NextBatch]_vars

\* ------------------------------------------------------------------------
\* Version: parse, str and bump on one version text
\* ------------------------------------------------------------------------
\* version texts: with and without 'v' prefixes, leading zeros, prerelease
\* and build parts, a final newline, and texts that are no versions
VersionTexts ==
  { p \o ma \o <<".">> \o mi \o <<".","3">> \o pre \o bld \o nl :
      p \in { <<>>, <<"v">>, <<"v","v">> },
      ma \in { <<"1">>, <<"0","1">>, <<"1","0">> },
      mi \in { <<"2">>, <<"0">> },
      pre \in { <<>>, <<"-","r","c",".","1">>, <<"-">>, <<"-","d","e","v",".","-","3">> },
      bld \in { <<>>, <<"+","b","5">>, <<"+">> },
      nl \in { <<>>, <<"\n">> } }
  \cup { <<>>, <<"1",".","2">>, <<"l","a","t","e","s","t">>, <<"1",".","2",".","3",".","4">>, <<"V","1",".","2",".","3">>, <<"1",".","2",".","x">>, <<"1",".","2",".","3","-","a","_","b">>, <<" ","1",".","2",".","3">> }

InitVersion ==
  /\ config = Config(DEFAULT_BRANCHES, DEFAULT_COMMIT_TYPES, DEFAULT_TAG_FORMAT)
  /\ branch = <<"m","a","i","n">>
  /\ pc = "version_str"
  /\ CalcIdle
  /\ ParserIdle
  /\ LookupIdle
  /\ ValidatorIdle
  /\ ConfigIdle
  /\ ReleaseIdle
  /\ version_str \in VersionTexts
  /\ version = None
  /\ rendered = <<>>
  /\ bumped = None

\* Version.parse(version_str): a Version, or ValueError
ParseVersion ==
  /\ pc = "version_str"
  /\ version' = Version_parse(version_str)
  /\ pc' = IF version' = None THEN "ValueError" ELSE "version"
  /\ UNCHANGED <<config, calc_vars, parser_vars, version_str, rendered, bumped,
                 lookup_vars, validator_vars, config_vars, release_vars>>

\* str(version)
RenderVersion ==
  /\ pc = "version"
  /\ rendered' = Version_str(version[1])
  /\ pc' = "rendered"
  /\ UNCHANGED <<config, calc_vars, parser_vars, version_str, version, bumped,
                 lookup_vars, validator_vars, config_vars, release_vars>>

\* version.bump(bump_type)
BumpVersion(bump_type) ==
  /\ pc = "version"
  /\ bumped' = Some([bump_type |-> bump_type, version |-> bump(version[1], bump_type)])
  /\ pc' = "bumped"
  /\ UNCHANGED <<config, calc_vars, parser_vars, version_str, version, rendered,
                 lookup_vars, validator_vars, config_vars, release_vars>>

NextVersion ==
  \/ ParseVersion
  \/ RenderVersion
  \/ \E bump_type \in BumpType : BumpVersion(bump_type)

SpecVersion == InitVersion /\ [][NextVersion]_vars

\* ------------------------------------------------------------------------
\* Config.get_branch_config on a configured branch list
\* ------------------------------------------------------------------------
\* entries a configuration's branch list is made of
BranchPool ==
  { BranchConfig(<<"m","a","i","n">>, "release", None),
    BranchConfig(<<"m","a","i","n">>, "prerelease", Some(<<"r","c">>)),
    BranchConfig(<<"m","a","*">>, "release", None),
    BranchConfig(<<"*","/","b","e","t","a">>, "prerelease", Some(<<"b","e","t","a">>)),
    BranchConfig(<<"*">>, "prerelease", Some(<<"d","e","v">>)) }

\* the branch lists of at most MaxBranches entries
BranchLists == UNION { [1..n -> BranchPool] : n \in 0..MaxBranches }

LookupBranchNames == { <<"m","a","i","n">>, <<"m","a","s","t","e","r">>, <<"d","e","v">>, <<"x","/","b","e","t","a">> }

InitBranch ==
  /\ config \in { Config(branches, DEFAULT_COMMIT_TYPES, DEFAULT_TAG_FORMAT) :
                    branches \in BranchLists }
  /\ branch \in LookupBranchNames
  /\ pc = "branch_name"
  /\ CalcIdle
  /\ ParserIdle
  /\ UnitsIdle

\* config.get_branch_config(branch)
GetBranchConfig ==
  /\ pc = "branch_name"
  /\ branch_config' = get_branch_config(config, branch)
  /\ pc' = "branch_config"
  /\ UNCHANGED <<config, calc_vars, parser_vars, version_vars, tag_version, latest_tag, validator_vars, config_vars, release_vars>>

NextBranch == GetBranchConfig

SpecBranch == InitBranch /\ [][NextBranch]_vars

\* ------------------------------------------------------------------------
\* VersionCalculator.get_current_version on a tag ledger
\* ------------------------------------------------------------------------
\* the ledgers of at most MaxTags tags
TagLedgers == {ledger \in SUBSET TagPool : Cardinality(ledger) <= MaxTags}

InitCurrent ==
  /\ config = Config(DEFAULT_BRANCHES, DEFAULT_COMMIT_TYPES, DEFAULT_TAG_FORMAT)
  /\ branch = <<"m","a","i","n">>
  /\ pc = "tags"
  /\ tags \in TagLedgers
  /\ calc_args = NoArgs
  /\ next_version = None
  /\ last_release = None
  /\ releases = 0
  /\ ParserIdle
  /\ UnitsIdle

\* version_calc.get_current_version(stable_only)
GetCurrentVersion(stable_only) ==
  /\ pc = "tags"
  /\ tag_version' = get_current_version(tags, stable_only)
  /\ pc' = IF stable_only THEN "stable_version" ELSE "current_version"
  /\ UNCHANGED <<config, calc_vars, parser_vars, version_vars, branch_config, latest_tag, validator_vars, config_vars, release_vars>>

NextCurrent == \E stable_only \in BOOLEAN : GetCurrentVersion(stable_only)

SpecCurrent == InitCurrent /\ [][NextCurrent]_vars

\* ------------------------------------------------------------------------
\* The validator on one commit message, and the validate action of the
\* command line
\* ------------------------------------------------------------------------
ValidatorTypes == {<<"f","i","x">>, <<"F","e","a","t">>, <<"n","o","p","e">>}

ValidatorScopes == {<<>>, <<"(","a","p","i",")">>, <<"(","u","i",")">>, <<"(","a"," ","b",")">>}

ValidatorMarks == {<<>>, <<"!">>}

ValidatorSubjects == {<<"r","e","s","o","l","v","e"," ","b","u","g">>, <<"R","e","s","o","l","v","e"," ","B","u","g",".">>, <<"a","b">>, <<"a"," ","m","u","c","h"," ","l","o","n","g","e","r"," ","s","u","b","j","e","c","t">>}

ValidatorBodies ==
  {<<>>, <<"\n","\n","s","h","o","r","t">>, <<"\n","s","h","o","r","t","\n","a"," ","l","i","n","e"," ","t","h","a","t"," ","i","s"," ","l","o","n","g">>, <<"\n","\n","\n","B","R","E","A","K","I","N","G"," ","C","H","A","N","G","E",":"," ","y">>,
   <<"\n","\n","b","r","e","a","k","i","n","g"," ","c","h","a","n","g","e",":"," ","y">>, <<"\n","\n","B","R","E","A","K","I","N","G","-","C","H","A","N","G","E",":"," ","a"," ","l","o","n","g","e","r"," ","l","i","n","e","\n","\n","e","n","d","\n">>}

\* messages whose first line does not have the header form, the empty and
\* the blank message among them
OddMessages ==
  {<<>>, <<" ">>, <<" ","\n","\t","\n">>, <<"u","p","d","a","t","e"," ","s","t","u","f","f">>, <<"u","p","d","a","t","e"," ","s","t","u","f","f","\n","\n","a"," ","l","i","n","e"," ","t","h","a","t"," ","i","s"," ","l","o","n","g">>,
   <<"u","p","d","a","t","e"," ","s","t","u","f","f","\n","\n","B","R","E","A","K","I","N","G"," ","C","H","A","N","G","E",":"," ","y">>, <<"f","i","x",":">>, <<"f","i","x","(",")",":"," ","x">>, <<"f","i","x"," ","(","a","p","i",")",":"," ","x">>,
   <<"F","i","x",":"," ","R","e","s","o","l","v","e"," ","B","u","g",".">>, <<"f","i","x"," ",":"," ","x"," ","y"," ","z">>, <<"\n","\n","f","i","x",":"," ","l","a","t","e"," ","h","e","a","d","e","r","\n","b","o","d","y">>}

ValidatorMessages ==
  {t \o s \o m \o <<":"," ">> \o d \o b :
     t \in ValidatorTypes, s \in ValidatorScopes, m \in ValidatorMarks,
     d \in ValidatorSubjects, b \in ValidatorBodies}
    \cup OddMessages

ValidationConfigs == {DEFAULT_VALIDATION, USER_VALIDATION}

InitValidate ==
  /\ config \in Configs
  /\ pc = "message"
  /\ branch = <<"m","a","i","n">>
  /\ CalcIdle
  /\ commit_message \in ValidatorMessages
  /\ parsed = None
  /\ commits_data = <<>>
  /\ parsed_commits = <<>>
  /\ max_bump = NONE
  /\ VersionIdle
  /\ LookupIdle
  /\ ConfigIdle
  /\ ReleaseIdle
  /\ validation_config \in ValidationConfigs
  /\ results = <<>>
  /\ valid = None
  /\ formatted = <<>>
  /\ exit_code = None

\* validator.validate(commit_message), then validator.is_valid(commit_message)
IsValid ==
  /\ pc = "message"
  /\ results' = validate(config, validation_config, commit_message)
  /\ valid' = Some(is_valid(config, validation_config, commit_message))
  /\ pc' = "validated"
  /\ UNCHANGED <<config, calc_vars, parser_vars, version_vars, lookup_vars,
                 validation_config, formatted, exit_code, config_vars, release_vars>>

\* release.py validate_message: the message comes from --message-file or
\* from --message; an empty --message exits 1 before any validation
ValidateMessage(message_file) ==
  /\ pc = "message"
  /\ IF ~message_file /\ commit_message = <<>>
     THEN /\ exit_code' = Some(1)
          /\ pc' = "no_message"
          /\ UNCHANGED <<results, valid, formatted>>
     ELSE /\ results' = validate(config, validation_config, commit_message)
          /\ valid' = Some(is_valid(config, validation_config, commit_message))
          /\ formatted' = format_results(validate(config, validation_config, commit_message))
          /\ exit_code' = Some(IF is_valid(config, validation_config, commit_message) THEN 0 ELSE 1)
          /\ pc' = "exited"
  /\ UNCHANGED <<config, calc_vars, parser_vars, version_vars, lookup_vars,
                 validation_config, config_vars, release_vars>>

NextValidate ==
  \/ IsValid
  \/ \E message_file \in BOOLEAN : ValidateMessage(message_file)

SpecValidate == InitValidate /\ [][NextValidate]_vars

\* ------------------------------------------------------------------------
\* Config constructed again and again in one process
\* ------------------------------------------------------------------------
\* what yaml.safe_load gives for the config file: nothing, or a dictionary
\* of some of the keys
UserConfigs ==
  { NO_USER_CONFIG,
    [tag_format |-> USER_TAG_FORMAT, branches |-> USER_BRANCHES, commit_types |-> USER_COMMIT_TYPES],
    [changelog |-> [file |-> <<"N","E","W","S",".","m","d">>]],
    [platform |-> <<"g","i","t","h","u","b">>, slack |-> [channel |-> <<"#","r","e","l","e","a","s","e","s">>]] }

\* os.environ: the variables of _apply_env_overrides that are set;
\* RELEASE_BRANCHES is given as what json.loads makes of it
Environs ==
  { [k \in {} |-> None],
    [TAG_FORMAT |-> USER_TAG_FORMAT],
    [SLACK_TOKEN |-> <<"x","o","x","b","-","1">>],
    [SLACK_ENABLED |-> <<"Y","e","s">>, SLACK_CHANNEL |-> <<"#","c","i">>],
    [RELEASE_PLATFORM |-> <<"G","i","t","L","a","b">>, RELEASE_BRANCHES |-> [valid |-> TRUE, value |-> USER_BRANCHES]],
    [RELEASE_BRANCHES |-> [valid |-> FALSE, value |-> <<>>]] }

InitConfig ==
  /\ config = Config(DEFAULT_BRANCHES, DEFAULT_COMMIT_TYPES, DEFAULT_TAG_FORMAT)
  /\ pc = "config"
  /\ branch = <<"m","a","i","n">>
  /\ CalcIdle
  /\ ParserIdle
  /\ UnitsIdle

\* Config(config_path, env_overrides): the whole constructor
ConstructConfig(user_config, environ, env_overrides) ==
  /\ pc = "config"
  /\ self_config' = init_config(DEFAULT_CONFIG, user_config, environ, env_overrides)
  /\ DEFAULT_CONFIG' = defaults_after_init(DEFAULT_CONFIG, user_config, environ, env_overrides)
  /\ config' = Config(self_config'.branches, self_config'.commit_types, self_config'.tag_format)
  /\ init_args' = Some([user_config |-> user_config, environ |-> environ,
                        env_overrides |-> env_overrides])
  /\ UNCHANGED <<pc, calc_vars, parser_vars, version_vars, lookup_vars, validator_vars,
                 release_vars>>

NextConfig ==
  \E user_config \in UserConfigs, environ \in Environs, env_overrides \in BOOLEAN :
    ConstructConfig(user_config, environ, env_overrides)

SpecConfig == InitConfig /\ [][NextConfig]_vars

\* ------------------------------------------------------------------------
\* One run of create_release
\* ------------------------------------------------------------------------
\* the tags of the repository when the run starts
ReleaseLedgers == { {}, {<<"1",".","2",".","0">>}, {<<"1",".","2",".","0">>, <<"v","1",".","1","0",".","0">>, <<"0",".","0",".","1","-","d","e","v",".","9">>} }

\* the commits git lists since the last tag
ReleaseCommitLists ==
  { <<>>,
    <<<<Shas[1], <<"f","i","x",":"," ","n","u","l","l"," ","c","h","e","c","k">>>>>>,
    <<<<Shas[1], <<"f","e","a","t","(","a","p","i",")",":"," ","a","d","d"," ","e","n","d","p","o","i","n","t">>>>, <<Shas[2], <<"u","p","d","a","t","e"," ","s","t","u","f","f">>>>>>,
    <<<<Shas[1], <<"d","o","c","s",":"," ","r","e","a","d","m","e">>>>>> }

\* what git, the file system and the platform answer to the calls of a run
Outcomes ==
  [changelog_ok : BOOLEAN, configure_ok : BOOLEAN, commit_ok : BOOLEAN,
   push_branch_ok : BOOLEAN, tag_ok : BOOLEAN, push_tag_ok : BOOLEAN,
   api : {"created", "failed"}]

\* the orchestrator is constructed: dry_run as given, and an API client
\* only outside dry-run, when its initialisation succeeds
InitRelease ==
  /\ config \in Configs
  /\ branch \in BranchNames
  /\ pc = "idle"
  /\ tags \in ReleaseLedgers
  /\ calc_args = NoArgs
  /\ next_version = None
  /\ last_release = None
  /\ releases = 0
  /\ ParserIdle
  /\ VersionIdle
  /\ LookupIdle
  /\ ValidatorIdle
  /\ ConfigIdle
  /\ dry_run \in BOOLEAN
  /\ release_api \in (IF dry_run THEN {FALSE} ELSE BOOLEAN)
  /\ changelog_file \in {<<>>, <<<<"1",".","2",".","0">>>>}
  /\ remote = NO_REMOTE
  /\ calls = <<>>
  /\ status = None
  /\ before = None

\* orchestrator.create_release(), the whole run
CreateRelease(commits, outcome) ==
  /\ pc = "idle"
  /\ \E w \in {create_release(config, dry_run, release_api, branch,
                              World(tags, changelog_file, remote, <<>>, None),
                              commits, outcome)} :
       /\ tags' = w.tags
       /\ changelog_file' = w.changelog_file
       /\ remote' = w.remote
       /\ calls' = w.calls
       /\ status' = w.status
  /\ before' = Some(World(tags, changelog_file, remote, <<>>, None))
  /\ commits_data' = commits
  /\ pc' = "released"
  /\ UNCHANGED <<config, branch, calc_args, next_version, last_release, releases,
                 commit_message, parsed, parsed_commits, max_bump,
                 version_vars, lookup_vars, validator_vars, config_vars,
                 dry_run, release_api>>

NextRelease ==
  \E commits \in ReleaseCommitLists, outcome \in Outcomes : CreateRelease(commits, outcome)

SpecRelease == InitRelease /\ [][NextRelease]_vars

\* ------------------------------------------------------------------------
\* Stable releases written to the tag ledger and read back
\* ------------------------------------------------------------------------
\* tag_format templates of a configuration, each with ${version}
TagFormats == { DEFAULT_TAG_FORMAT, USER_TAG_FORMAT, <<"r","e","l","e","a","s","e","-","$","{","v","e","r","s","i","o","n","}">>, <<"$","{","v","e","r","s","i","o","n","}","-","f","i","n","a","l">> }

\* the tags of the repository before the release: tags of this program
\* and tags written by people and other tools
StartLedgers ==
  { {}, {<<"1",".","2",".","0">>}, {<<"v","1",".","1","0",".","0">>}, {<<"0","1",".","2",".","3">>}, {<<"1",".","2",".","0">>, <<"0",".","0",".","1","-","d","e","v",".","9">>},
    {<<"l","a","t","e","s","t">>}, {<<"1",".","2",".","0">>, <<"v","1",".","1","0",".","0">>} }

\* stable versions a run releases
ReleasedVersions == { Version(0, 0, 1), Version(1, 3, 0), Version(2, 0, 0) }

InitLedger ==
  /\ config \in { Config(DEFAULT_BRANCHES, DEFAULT_COMMIT_TYPES, tag_format) :
                    tag_format \in TagFormats }
  /\ branch = <<"m","a","i","n">>
  /\ pc = "idle"
  /\ tags \in StartLedgers
  /\ calc_args = NoArgs
  /\ next_version = None
  /\ last_release = None
  /\ releases = 0
  /\ ParserIdle
  /\ UnitsIdle

\* create_release on a stable branch tags the version: git tag format_tag(version)
TagRelease(released) ==
  /\ pc = "idle"
  /\ format_tag(config, released) \notin tags
  /\ tags' = tags \cup {format_tag(config, released)}
  /\ next_version' = Some(released)
  /\ pc' = "tagged"
  /\ UNCHANGED <<config, branch, calc_args, last_release, releases, parser_vars, unit_vars>>

\* generate_version on a stable branch, up to the start of the commit
\* range: get_current_version(stable_only=True), then format_tag of it
StartOfRange ==
  /\ pc \in {"idle", "tagged"}
  /\ tag_version' = get_current_version(tags, TRUE)
  /\ latest_tag' = IF tag_version' # None THEN Some(format_tag(config, tag_version'[1])) ELSE None
  /\ pc' = "range"
  /\ UNCHANGED <<config, calc_vars, parser_vars, version_vars, branch_config,
                 validator_vars, config_vars, release_vars>>

NextLedger ==
  \/ \E released \in ReleasedVersions : TagRelease(released)
  \/ StartOfRange

SpecLedger == InitLedger /\ [][NextLedger]_vars

\* ------------------------------------------------------------------------
\* Properties of the version calculator
\* ------------------------------------------------------------------------
\* the branch configuration the call of the run resolved
CallBranchConfig == get_branch_config(config, calc_args.branch_name)

\* the run called calculate_next_version on a prerelease branch with a bump
PrereleaseCall ==
  /\ pc = "calculated"
  /\ CallBranchConfig # None
  /\ Truthy(CallBranchConfig[1].prerelease)
  /\ calc_args.max_bump # NONE

\* the run called calculate_next_version on a stable branch with a bump
StableCall ==
  /\ pc = "calculated"
  /\ CallBranchConfig # None
  /\ ~Truthy(CallBranchConfig[1].prerelease)
  /\ calc_args.max_bump \in {MAJOR, MINOR, PATCH}

\* C2: on a prerelease branch with identifier I and a bump, the result is
\* nextBase-I.N, where nextBase is the bump of the greatest stable
\* (major, minor, patch) in the ledger (0.0.0 if none) and N is 1 + the
\* greatest numeric counter among the version tags nextBase-I.<counter>
\* (1 if none).  A tag counts with the number that follows "nextBase-I." up
\* to the next '.' or '+'; tags with another identifier do not count.
C2_PrereleasePath ==
  PrereleaseCall =>
    LET I == CallBranchConfig[1].prerelease[1]
        nextBase == Bumped(GreatestStable(tags), calc_args.max_bump)
        N == NextCounter(tags, TripleText(nextBase) \o <<"-">> \o I \o <<".">>)
    IN  next_version = Some([major |-> nextBase[1], minor |-> nextBase[2], patch |-> nextBase[3],
                             prerelease |-> Some(I \o <<".">> \o int_to_str(N)),
                             build |-> None])

\* C2 witness: with stable tag 1.2.0 and prerelease tag 1.2.1-dev.2 in the
\* ledger, a PATCH release on the dev branch got 1.2.1-dev.3
C2_Witness ==
  /\ PrereleaseCall
  /\ calc_args.max_bump = PATCH
  /\ <<"1",".","2",".","0">> \in tags
  /\ <<"1",".","2",".","1","-","d","e","v",".","2">> \in tags
  /\ next_version = Some(with_prerelease(Version(1, 2, 1), <<"d","e","v">>, 3))

\* C3: once a prerelease version was tagged as format_tag(version), the next
\* calculation on that branch with the same max_bump and the same latest
\* stable version returns the same base version and identifier with a
\* strictly greater counter.
C3_CounterIncreases ==
  ( /\ PrereleaseCall
    /\ last_release # None
    /\ Truthy(last_release[1].version.prerelease)
    /\ last_release[1].max_bump = calc_args.max_bump
    /\ GreatestStable(tags) = last_release[1].stable )
  => /\ next_version # None
     /\ Triple(next_version[1]) = Triple(last_release[1].version)
     /\ PrereleaseParts(next_version[1])[1] = PrereleaseParts(last_release[1].version)[1]
     /\ py_int(PrereleaseParts(next_version[1])[2])[1]
          > py_int(PrereleaseParts(last_release[1].version)[2])[1]

\* C4: on a stable branch with a bump, the result is the bump of
\* current_version's (major, minor, patch), or of (0, 0, 0) when
\* current_version is absent, and has no prerelease and no build part.
C4_StablePath ==
  StableCall =>
    LET base == IF calc_args.current_version = None THEN <<0, 0, 0>>
                ELSE Triple(calc_args.current_version[1])
        expected == Bumped(base, calc_args.max_bump)
    IN  next_version = Some([major |-> expected[1], minor |-> expected[2], patch |-> expected[3],
                             prerelease |-> None, build |-> None])

\* C4 witness: a MINOR release on a stable branch from current version
\* 1.2.3-rc.1+b5 got 1.3.0
C4_Witness ==
  /\ StableCall
  /\ calc_args.max_bump = MINOR
  /\ calc_args.current_version # None
  /\ calc_args.current_version[1].prerelease = Some(<<"r","c",".","1">>)
  /\ calc_args.current_version[1].build = Some(<<"b","5">>)
  /\ next_version = Some(Version(1, 3, 0))

\* the value calculate_next_version returns when no release is needed
NoReleaseNeeded == None

\* C5: a call with a branch that matches no configured pattern has an
\* outcome that differs from the "no release needed" outcome.
C5_UnmatchedBranchIsDistinguished ==
  (pc = "calculated" /\ CallBranchConfig = None) => next_version # NoReleaseNeeded

\* C6: a call with a branch that matches a configured pattern and
\* max_bump = NONE returns nothing, whatever the ledger and current_version.
C6_NoBumpNoRelease ==
  (pc = "calculated" /\ CallBranchConfig # None /\ calc_args.max_bump = NONE)
    => next_version = None

\* C6 witness: a prerelease branch with tags in the ledger and a current
\* version, called with max_bump = NONE, returned nothing
C6_Witness ==
  /\ pc = "calculated"
  /\ CallBranchConfig # None
  /\ Truthy(CallBranchConfig[1].prerelease)
  /\ calc_args.max_bump = NONE
  /\ calc_args.current_version # None
  /\ <<"1",".","2",".","0">> \in tags
  /\ next_version = None

\* ------------------------------------------------------------------------
\* Properties of the commit parser
\* ------------------------------------------------------------------------
\* the header parse looks at: the first line of the stripped message
HeaderOf(message) == strip(split(strip(message), "\n")[1])

\* the header has the form type[(scope)]!: subject, the breaking marker
\* standing directly before the colon
MarkedBreaking(header) ==
  LET n == Len(header)
      t1 == RunEnd(header, 1, IsWord)
      opens == t1 + 1 <= n /\ header[t1 + 1] = "("
      s1 == RunEnd(header, t1 + 2, NotCloseParen)
      scoped == opens /\ s1 >= t1 + 2 /\ s1 + 1 <= n
      after == IF scoped THEN s1 + 1 ELSE t1
  IN  /\ t1 >= 1
      /\ (opens => scoped)
      /\ after + 3 <= n
      /\ header[after + 1] = "!"
      /\ header[after + 2] = ":"
      /\ \E k \in (after + 3)..n : ~IsSpace(header[k])

\* C1: a message whose header carries the breaking marker directly before
\* the colon (feat!: x, feat(scope)!: x) is parsed, with breaking = TRUE and
\* bump = MAJOR, whatever the type is configured as.
C1_MarkedHeaderIsBreakingMajor ==
  (pc = "parsed" /\ MarkedBreaking(HeaderOf(commit_message)))
    => /\ parsed # None
       /\ parsed[1].breaking
       /\ parsed[1].bump = MAJOR

\* C7: every parsed commit with breaking = TRUE has bump = MAJOR.
C7_BreakingIsMajor ==
  (pc = "parsed" /\ parsed # None /\ parsed[1].breaking) => parsed[1].bump = MAJOR

\* C7 witness: a commit of type fix, which the configuration maps to patch
\* or minor, was parsed as breaking and got MAJOR
C7_Witness ==
  /\ pc = "parsed"
  /\ parsed # None
  /\ parsed[1].breaking
  /\ parsed[1].type = <<"f","i","x">>
  /\ get_commit_type(config, parsed[1].type) # None
  /\ get_commit_type(config, parsed[1].type)[1].bump \in {"minor", "patch"}
  /\ parsed[1].bump = MAJOR

\* some line of the body starts, in any letter case, with BREAKING CHANGE:
\* or BREAKING-CHANGE:
BodyLineStartsWithMarker(body) ==
  \E i \in 1..Len(split(body, "\n")) :
    LET line == split(body, "\n")[i]
    IN  /\ Len(line) >= 16
        /\ lower(SubSeq(line, 1, 16)) \in {<<"b","r","e","a","k","i","n","g"," ","c","h","a","n","g","e",":">>, <<"b","r","e","a","k","i","n","g","-","c","h","a","n","g","e",":">>}

\* C8: for a parsed message whose header has no '!' before its first colon,
\* breaking = TRUE exactly when some line of the body starts with the
\* breaking-change marker.
C8_BodyMarkerAtLineStart ==
  (pc = "parsed" /\ parsed # None /\ ~InSeq("!", split(HeaderOf(commit_message), ":")[1]))
    => (parsed[1].breaking <=> BodyLineStartsWithMarker(parsed[1].body))

\* the rank of a severity: MAJOR > MINOR > PATCH > NONE
Severities == <<NONE, PATCH, MINOR, MAJOR>>

Rank(b) == CHOOSE i \in 1..4 : Severities[i] = b

\* the severity the configuration gives a type: that of the type of this
\* name, else that of the first type listing it as an alias, else NONE
ConfiguredSeverity(self, type) ==
  LET types == self.commit_types
      named == {i \in 1..Len(types) : types[i].name = type}
      aliased == {i \in 1..Len(types) : InSeq(type, types[i].aliases)}
      severity(i) == IF types[i].bump \in {MAJOR, MINOR, PATCH} THEN types[i].bump ELSE NONE
  IN  IF named # {} THEN severity(CHOOSE i \in named : TRUE)
      ELSE IF aliased # {} THEN severity(CHOOSE i \in aliased : \A j \in aliased : i <= j)
      ELSE NONE

\* C9: a parsed commit that is not breaking has the severity configured for
\* its type, found by name or else by alias, and NONE when the type is
\* neither a configured name nor an alias.
C9_BumpFromConfiguredType ==
  (pc = "parsed" /\ parsed # None /\ ~parsed[1].breaking)
    => parsed[1].bump = ConfiguredSeverity(config, parsed[1].type)

\* C9 witness: the type 'feature', an alias of feat in the default
\* configuration, gave a commit that is not breaking the bump MINOR
C9_Witness ==
  /\ pc = "parsed"
  /\ config.commit_types = DEFAULT_COMMIT_TYPES
  /\ parsed # None
  /\ ~parsed[1].breaking
  /\ parsed[1].type = <<"f","e","a","t","u","r","e">>
  /\ parsed[1].bump = MINOR

\* the orderings of the commits of a list
Orderings(commits) ==
  LET n == Len(commits)
      perms == {f \in [1..n -> 1..n] : \A i, j \in 1..n : f[i] = f[j] => i = j}
  IN  {[i \in 1..n |-> commits[f[i]]] : f \in perms}

\* C10: get_max_bump returns the highest severity among the bumps of the
\* commits, NONE for an empty list, in whatever order the commits come.
C10_MaxBumpIsHighest ==
  pc = "max_bump" =>
    /\ parsed_commits = <<>> => max_bump = NONE
    /\ \A i \in 1..Len(parsed_commits) : Rank(parsed_commits[i].bump) <= Rank(max_bump)
    /\ parsed_commits # <<>> => \E i \in 1..Len(parsed_commits) : parsed_commits[i].bump = max_bump
    /\ \A other \in Orderings(parsed_commits) : get_max_bump(other) = max_bump

\* C10 witness: a feat commit (MINOR) followed by a fix commit (PATCH) gave
\* the maximum MINOR
C10_Witness ==
  /\ pc = "max_bump"
  /\ Len(parsed_commits) = 2
  /\ parsed_commits[1].type = <<"f","e","a","t">> /\ parsed_commits[1].bump = MINOR
  /\ parsed_commits[2].type = <<"f","i","x">> /\ parsed_commits[2].bump = PATCH
  /\ max_bump = MINOR

\* ------------------------------------------------------------------------
\* Properties of parse_commits
\* ------------------------------------------------------------------------
\* the header grammar of the design, type[(scope)]: subject, stated over
\* positions: t ends the type, s the optional scope group, c is the colon
HeaderMatchesGrammar(header) ==
  \E t \in 1..Len(header) :
    /\ \A k \in 1..t : IsWord(header[k])
    /\ \E s \in t..Len(header) :
         /\ s # t => /\ s >= t + 3
                     /\ header[t + 1] = "("
                     /\ header[s] = ")"
                     /\ \A k \in (t + 2)..(s - 1) : header[k] # ")"
         /\ \E c \in (s + 1)..(Len(header) - 1) :
              /\ header[c] = ":"
              /\ \A k \in (s + 1)..(c - 1) : IsSpace(header[k])

\* the positions of the commits of a list whose header matches the grammar
MatchingPositions(commits) ==
  {i \in 1..Len(commits) : HeaderMatchesGrammar(HeaderOf(commits[i][2]))}

\* the k-th smallest element of a set of positions
KthOf(positions, k) ==
  CHOOSE i \in positions : Cardinality({j \in positions : j <= i}) = k

StripOneV(text) == IF text # <<>> /\ text[1] = "v" THEN Tail(text) ELSE text

\* the text is digits.digits.digits, then optionally '-' and a prerelease,
\* then optionally '+' and a build, both over [0-9A-Za-z.-], and nothing else
IsVersionForm(s) ==
  \E a \in 1..Len(s), b \in 1..Len(s), c \in 1..Len(s) :
    /\ \A k \in 1..a : IsDigit(s[k])
    /\ b >= a + 2 /\ s[a + 1] = "." /\ \A k \in (a + 2)..b : IsDigit(s[k])
    /\ c >= b + 2 /\ s[b + 1] = "." /\ \A k \in (b + 2)..c : IsDigit(s[k])
    /\ \E p \in c..Len(s) :
         /\ p # c => /\ p >= c + 2
                     /\ s[c + 1] = "-"
                     /\ \A k \in (c + 2)..p : IsIdentChar(s[k])
         /\ \/ p = Len(s)
            \/ /\ Len(s) >= p + 2
               /\ s[p + 1] = "+"
               /\ \A k \in (p + 2)..Len(s) : IsIdentChar(s[k])

\* C12: for every text Version.parse accepts, str of the parsed version is
\* the text with a single leading 'v' removed.
C12_RoundTrip ==
  pc = "rendered" => rendered = StripOneV(version_str)

\* C13: Version.parse raises ValueError for every text that, with at most
\* one leading 'v' removed, is not of the version form.
C13_MalformedIsRejected ==
  (pc \in {"version", "ValueError"} /\ ~IsVersionForm(StripOneV(version_str)))
    => version = None

\* C14: bump leaves the receiver as it was parsed and returns the table's
\* next (major, minor, patch) for the severity, without prerelease and
\* without build.
C14_BumpTable ==
  pc = "bumped" =>
    /\ version = Version_parse(version_str)
    /\ Triple(bumped[1].version) = Bumped(Triple(version[1]), bumped[1].bump_type)
    /\ bumped[1].version.prerelease = None
    /\ bumped[1].version.build = None

\* C14 witness: 1.2.3-rc.1+b5 was bumped MINOR to 1.3.0
C14_Witness ==
  /\ pc = "bumped"
  /\ version[1].prerelease = Some(<<"r","c",".","1">>) /\ version[1].build = Some(<<"b","5">>)
  /\ Triple(version[1]) = <<1, 2, 3>>
  /\ bumped[1].bump_type = MINOR
  /\ Version_str(bumped[1].version) = <<"1",".","3",".","0">>

\* C15: a MAJOR, MINOR or PATCH bump is strictly greater than the receiver
\* in (major, minor, patch) order; a NONE bump has the receiver's numbers.
C15_BumpIsGreater ==
  pc = "bumped" =>
    /\ bumped[1].bump_type \in {MAJOR, MINOR, PATCH}
         => TripleLess(Triple(version[1]), Triple(bumped[1].version))
    /\ bumped[1].bump_type = NONE => Triple(bumped[1].version) = Triple(version[1])

\* C15 witness: 10.2.3 was bumped MINOR to 10.3.0, greater although its
\* patch number is smaller
C15_Witness ==
  /\ pc = "bumped"
  /\ Triple(version[1]) = <<10, 2, 3>>
  /\ bumped[1].bump_type = MINOR
  /\ Triple(bumped[1].version) = <<10, 3, 0>>

\* ------------------------------------------------------------------------
\* Properties of the lookups
\* ------------------------------------------------------------------------
\* the positions of the entries of the branch list whose pattern matches
MatchingEntries(self, branch_name) ==
  {i \in 1..Len(self.branches) : wildmatch(self.branches[i].name, branch_name)}

\* C16: get_branch_config returns the first entry, in configuration order,
\* whose pattern matches the branch name, and nothing only when none does.
C16_FirstMatchWins ==
  pc = "branch_config" =>
    /\ (branch_config = None) <=> (MatchingEntries(config, branch) = {})
    /\ branch_config # None =>
         \E i \in MatchingEntries(config, branch) :
           /\ branch_config[1] = config.branches[i]
           /\ \A j \in 1..(i - 1) : ~wildmatch(config.branches[j].name, branch)

\* C16 witness: with the list <<'*' (dev), 'main' (release)>> the branch
\* main got the entry of '*', although the later entry names it exactly
C16_Witness ==
  /\ pc = "branch_config"
  /\ branch = <<"m","a","i","n">>
  /\ Len(config.branches) = 2
  /\ config.branches[1].name = <<"*">>
  /\ config.branches[2] = BranchConfig(<<"m","a","i","n">>, "release", None)
  /\ branch_config = Some(config.branches[1])

\* the tag `git tag --sort=-version:refname` lists first
LatestTag(ledger) == CHOOSE t \in ledger : \A u \in ledger : versioncmp(t, u) >= 0

\* C17: get_current_version(stable_only=False) is the parse of the single
\* latest tag; it is nothing when there are no tags and when the latest tag
\* does not parse, whatever the other tags are.
C17_CurrentIsParseOfLatest ==
  pc = "current_version" =>
    /\ tags = {} => tag_version = None
    /\ tags # {} =>
         /\ Version_parse(LatestTag(tags)) = None => tag_version = None
         /\ Version_parse(LatestTag(tags)) # None =>
              /\ tag_version # None
              /\ Version_str(tag_version[1]) = lstrip_v(LatestTag(tags))

\* C17 witness: the ledger holds the tags 'latest' and '1.2.0'; 'latest'
\* sorts first and does not parse, and the result is nothing
C17_Witness ==
  /\ pc = "current_version"
  /\ tags = { <<"l","a","t","e","s","t">>, <<"1",".","2",".","0">> }
  /\ tag_version = None

\* ------------------------------------------------------------------------
\* Properties of CommitMessageValidator
\* ------------------------------------------------------------------------
\* validate has run on commit_message and results holds its findings
Validated == pc \in {"validated", "exited"}

\* C18: validate on an empty message (empty or whitespace-only text)
\* returns exactly one finding, of level ERROR, and runs no header or body
\* checks.
C18_EmptyMessageGivesOneError ==
  Validated /\ strip(commit_message) = <<>> =>
    /\ Len(results) = 1
    /\ results[1].level = ERROR

\* the position of the first line break of a text, Len(text) + 1 without one
FirstBreak(text) ==
  CHOOSE e \in 1..(Len(text) + 1) :
    /\ e <= Len(text) => text[e] = "\n"
    /\ \A k \in 1..(e - 1) : text[k] # "\n"

\* the first line of the message, surrounding whitespace removed
HeaderLine(message) ==
  LET first(text) == strip(SubSeq(text, 1, FirstBreak(text) - 1))
  IN  first(strip(message))

\* what follows the first line of the message, surrounding whitespace removed
BodyText(message) ==
  LET rest(text) == strip(SubSeq(text, FirstBreak(text) + 1, Len(text)))
  IN  rest(strip(message))

\* the header grammar of the validator, type[(scope)][!]: subject, stated
\* over positions: t ends the type, s the optional scope group, b the
\* optional '!', c is the colon
ValidatorHeaderMatches(header) ==
  \E t \in 1..Len(header) :
    /\ \A k \in 1..t : IsWord(header[k])
    /\ \E s \in t..Len(header) :
         /\ s # t => /\ s >= t + 3
                     /\ header[t + 1] = "("
                     /\ header[s] = ")"
                     /\ \A k \in (t + 2)..(s - 1) : header[k] # ")"
         /\ \E b \in {s, s + 1} :
              /\ b # s => b <= Len(header) /\ header[b] = "!"
              /\ \E c \in (b + 1)..(Len(header) - 1) :
                   /\ header[c] = ":"
                   /\ \A k \in (b + 1)..(c - 1) : IsSpace(header[k])

\* the line boundaries of a text: 0, the positions of its line breaks, and
\* Len(text) + 1
Boundaries(text) == {0, Len(text) + 1} \cup {i \in 1..Len(text) : text[i] = "\n"}

\* the numbers, counted from 1, of the lines of a text longer than limit
LongLines(text, limit) ==
  {k \in 1..(Cardinality(Boundaries(text)) - 1) :
     KthOf(Boundaries(text), k + 1) - KthOf(Boundaries(text), k) - 1 > limit}

\* the text holds one of the two breaking markers of the validator
HasBreakingMarker(text) ==
  \E i \in 1..(Len(text) - 15) :
    \/ SubSeq(text, i, i + 15) = <<"B","R","E","A","K","I","N","G"," ","C","H","A","N","G","E",":">>
    \/ SubSeq(text, i, i + 15) = <<"B","R","E","A","K","I","N","G","-","C","H","A","N","G","E",":">>

\* the findings are those of the body checks alone: one WARNING per
\* over-long line of the body, in order, numbered from 3, then one INFO when
\* the body holds a breaking marker
AreBodyFindings(findings, body, limit) ==
  /\ Len(findings) = Cardinality(LongLines(body, limit)) + (IF HasBreakingMarker(body) THEN 1 ELSE 0)
  /\ \A j \in 1..Cardinality(LongLines(body, limit)) :
       findings[j] = ValidationResult(WARNING, "Body line too long",
                                      Some(KthOf(LongLines(body, limit), j) + 2))
  /\ HasBreakingMarker(body) =>
       findings[Len(findings)] = ValidationResult(INFO, "BREAKING CHANGE detected in body", None)

\* C19: when the header of a non-empty message does not match the grammar,
\* validate returns one ERROR and then one INFO hint for the header, none of
\* the type, scope, subject, breaking or header-length findings, and after
\* them the findings of the body checks.
C19_MismatchStopsHeaderChecksOnly ==
  (/\ Validated
   /\ strip(commit_message) # <<>>
   /\ ~ValidatorHeaderMatches(HeaderLine(commit_message))) =>
    /\ Len(results) >= 2
    /\ results[1] = ValidationResult(ERROR, "Header does not match conventional commit format", Some(1))
    /\ results[2] = ValidationResult(INFO, "Expected format: type(scope): subject or type: subject", Some(1))
    /\ AreBodyFindings(SubSeq(results, 3, Len(results)), BodyText(commit_message),
                       validation_config.body_max_line_length)

\* C19 witness: 'update stuff' over a body line of 19 characters under a
\* limit of 10: the ERROR, the hint, and the WARNING for line 3
C19_Witness ==
  /\ pc = "validated"
  /\ commit_message = <<"u","p","d","a","t","e"," ","s","t","u","f","f","\n","\n","a"," ","l","i","n","e"," ","t","h","a","t"," ","i","s"," ","l","o","n","g">>
  /\ validation_config = USER_VALIDATION
  /\ Len(results) = 3
  /\ results[1].level = ERROR
  /\ results[2].level = INFO
  /\ results[3] = ValidationResult(WARNING, "Body line too long", Some(3))

\* C20: is_valid is true exactly when validate returned no ERROR finding,
\* whatever WARNING and INFO findings there are, and the validate action
\* exits 0 exactly when is_valid is true and 1 otherwise.
C20_ValidIffNoError ==
  /\ Validated =>
       /\ valid # None
       /\ valid[1] <=> ~\E i \in 1..Len(results) : results[i].level = ERROR
  /\ pc = "exited" => exit_code = Some(IF valid[1] THEN 0 ELSE 1)
  /\ pc = "no_message" =>
       /\ exit_code = Some(1)
       /\ ~is_valid(config, validation_config, commit_message)

\* C20 witness: 'Fix: Resolve Bug.' under the defaults has the two WARNINGs
\* of its subject and nothing else, is valid, and the action exits 0
C20_Witness ==
  /\ pc = "exited"
  /\ commit_message = <<"F","i","x",":"," ","R","e","s","o","l","v","e"," ","B","u","g",".">>
  /\ validation_config = DEFAULT_VALIDATION
  /\ Len(results) = 2
  /\ results[1] = ValidationResult(WARNING, "Subject should start with lowercase letter", Some(1))
  /\ results[2] = ValidationResult(WARNING, "Subject should not end with a period", Some(1))
  /\ valid = Some(TRUE)
  /\ exit_code = Some(0)

\* the line numbers of the WARNINGs for over-long body lines among findings
ReportedLongLines(findings) ==
  {findings[i].line[1] : i \in {j \in 1..Len(findings) : findings[j].message = "Body line too long"}}

\* C21: the line number of the WARNING for an over-long body line is the
\* 1-based position of that line in the message (header = 1), for every
\* layout of the message: the lines reported are the lines after the header
\* that are longer than the limit.
C21_LineIsPositionInMessage ==
  Validated =>
    ReportedLongLines(results) =
      LongLines(strip(commit_message), validation_config.body_max_line_length) \ {1}

\* C26: every message for which is_valid is true is parsed by parse into a
\* ParsedCommit, never dropped.
C26_ValidIsParsed ==
  Validated /\ valid = Some(TRUE) => parse(config, commit_message, <<"a","1">>) # None

\* the place of a finding in the order of the rules: type, scope format,
\* scope allow-list, subject too short, too long, uppercase start, trailing
\* period, breaking marker, header length, body line, body marker
RuleRank(finding) ==
  CASE finding.message = "Invalid commit type" -> 1
    [] finding.message = "Invalid scope format" -> 2
    [] finding.message = "Scope is not in allowed list" -> 3
    [] finding.message = "Subject too short" -> 4
    [] finding.message = "Subject too long" -> 5
    [] finding.message = "Subject should start with lowercase letter" -> 6
    [] finding.message = "Subject should not end with a period" -> 7
    [] finding.message = "Breaking change indicator (!) detected" -> 8
    [] finding.message = "Header too long" -> 9
    [] finding.message = "Body line too long" -> 10
    [] finding.message = "BREAKING CHANGE detected in body" -> 11
    [] OTHER -> 0

\* the place of a level in the text of format_results
GroupRank(level) == CASE level = ERROR -> 1 [] level = WARNING -> 2 [] OTHER -> 3

\* the place among the items of the text of the i-th finding: after the
\* findings of earlier groups and the earlier findings of its own group
ItemPlace(findings, i) ==
  Cardinality({j \in 1..Len(findings) : GroupRank(findings[j].level) < GroupRank(findings[i].level)})
    + Cardinality({j \in 1..i : findings[j].level = findings[i].level})

\* the lines of a text of format_results that are items
ItemsOf(lines) ==
  SelectSeq(lines, LAMBDA l : l.text \notin {"Errors:", "Warnings:", "Info:", "", "Commit message is valid"})

\* C22: for a header that matches the grammar the findings of validate are
\* in rule order (type, scope format, scope allow-list, subject too short,
\* too long, uppercase start, trailing period, breaking marker, header
\* length, then the body findings), and format_results lists them grouped
\* as errors, warnings, infos, in this relative order inside each group.
C22_FindingsInRuleOrder ==
  /\ (Validated /\ ValidatorHeaderMatches(HeaderLine(commit_message))) =>
       \A i \in 1..Len(results) : \A j \in (i + 1)..Len(results) :
         \/ RuleRank(results[i]) < RuleRank(results[j])
         \/ /\ RuleRank(results[i]) = 10 /\ RuleRank(results[j]) = 10
            /\ results[i].line[1] < results[j].line[1]
  /\ pc = "exited" =>
       /\ Len(ItemsOf(formatted)) = Len(results)
       /\ \A i \in 1..Len(results) :
            ItemsOf(formatted)[ItemPlace(results, i)] = FormatLine(results[i].message, results[i].line)

\* C22 witness: a header with a finding of seven of the rules over a body
\* with both body findings; the header-length ERROR is the seventh finding
\* and the third item of the text, under the heading of the errors
C22_Witness ==
  /\ pc = "exited"
  /\ commit_message = <<"n","o","p","e","(","a"," ","b",")","!",":"," ","R","e","s","o","l","v","e"," ","B","u","g",".","\n","\n","B","R","E","A","K","I","N","G","-","C","H","A","N","G","E",":"," ","a"," ","l","o","n","g","e","r"," ","l","i","n","e","\n","\n","e","n","d","\n">>
  /\ validation_config = USER_VALIDATION
  /\ Len(results) = 9
  /\ results[1].message = "Invalid commit type"
  /\ results[7].message = "Header too long"
  /\ results[9].message = "BREAKING CHANGE detected in body"
  /\ formatted[1] = FormatLine("Errors:", None)
  /\ formatted[4] = FormatLine("Header too long", Some(1))
  /\ formatted[5] = FormatLine("", None)
  /\ formatted[6] = FormatLine("Warnings:", None)

\* ------------------------------------------------------------------------
\* Properties of Config
\* ------------------------------------------------------------------------
\* the Config constructed last had no user file and no override from the
\* environment
BuiltWithoutOverrides ==
  /\ init_args # None
  /\ init_args[1].user_config = NO_USER_CONFIG
  /\ (~init_args[1].env_overrides \/ DOMAIN init_args[1].environ = {})

\* C23: constructing a Config with user-file or environment overrides does
\* not change the shared defaults: after any sequence of constructions
\* DEFAULT_CONFIG, its nested commit_types, changelog and slack maps
\* included, is as the class body set it, and a Config built with no
\* overrides has exactly the default values.
C23_DefaultsUnchanged ==
  pc = "config" =>
    /\ DEFAULT_CONFIG = DEFAULT_CONFIG_LITERAL
    /\ BuiltWithoutOverrides =>
         /\ self_config = DEFAULT_CONFIG_LITERAL
         /\ config = Config(DEFAULT_BRANCHES, DEFAULT_COMMIT_TYPES, DEFAULT_TAG_FORMAT)

\* ------------------------------------------------------------------------
\* Properties of create_release
\* ------------------------------------------------------------------------
\* create_release has returned
Released == pc = "released"

\* the operations the run called
OpsCalled == {calls[i].op : i \in 1..Len(calls)}

\* the run would release: the branch is configured and the commits give a
\* next version
ReleaseNeeded ==
  LET needed(version_info) == ~version_info.error /\ ~version_info.no_release
  IN  needed(generate_version(config, branch, before[1].tags, commits_data))

\* C24: in dry-run mode create_release never creates a git tag, never
\* pushes a tag or branch, never commits, and never calls the platform
\* release API or configures the push URL, on every path; it returns
\* status 'dry-run' when a release would be needed.
C24_DryRunPublishesNothing ==
  Released /\ dry_run =>
    /\ OpsCalled \cap {"create_tag", "push_tag", "push_branch", "commit_files",
                       "release_api.create_release", "configure_push_url"} = {}
    /\ tags = before[1].tags
    /\ remote = before[1].remote
    /\ ReleaseNeeded => status = Some("dry-run")

\* C29: in dry-run mode create_release leaves the changelog file
\* unchanged, on every path.
C29_DryRunKeepsChangelog ==
  Released /\ dry_run => changelog_file = before[1].changelog_file

\* C30: a run that ends with status 'failed' has published nothing: no
\* commit pushed to the remote branch, no tag and no platform release
\* created during the run.
C30_FailedPublishedNothing ==
  Released /\ status = Some("failed") =>
    /\ remote = before[1].remote
    /\ tags = before[1].tags

\* the place of the call of an operation among the calls of the run, 0
\* when the run did not call it
PlaceOf(op) ==
  IF op \in OpsCalled THEN CHOOSE i \in 1..Len(calls) : calls[i].op = op ELSE 0

\* the run called the operation and it had this success
HasCall(op, ok) == \E i \in 1..Len(calls) : calls[i] = Call(op, ok)

\* C25: in create_release the steps are ordered tag creation, tag push,
\* platform release: when the tag creation fails the status is 'failed'
\* and neither the push of the tag nor the platform release is attempted;
\* when the tag was created, a failed push of the tag or a failed platform
\* release still ends with status 'success'.
C25_TagThenPushThenRelease ==
  Released =>
    /\ HasCall("create_tag", FALSE) =>
         /\ status = Some("failed")
         /\ "push_tag" \notin OpsCalled
         /\ "release_api.create_release" \notin OpsCalled
         /\ remote.tags = before[1].remote.tags
         /\ remote.releases = before[1].remote.releases
    /\ HasCall("create_tag", TRUE) =>
         /\ status = Some("success")
         /\ PlaceOf("push_tag") = PlaceOf("create_tag") + 1
         /\ release_api => PlaceOf("release_api.create_release") = PlaceOf("push_tag") + 1
    /\ "create_tag" \notin OpsCalled =>
         OpsCalled \cap {"push_tag", "release_api.create_release"} = {}

\* C25 witness: the tag was created, its push failed and the platform
\* release failed, and the run ended with 'success'
C25_Witness ==
  /\ Released
  /\ HasCall("create_tag", TRUE)
  /\ HasCall("push_tag", FALSE)
  /\ HasCall("release_api.create_release", FALSE)
  /\ status = Some("success")

\* ------------------------------------------------------------------------
\* Properties of the tag ledger read back
\* ------------------------------------------------------------------------
\* the tags of a ledger that parse as a stable version
StableTags(ledger) ==
  {t \in ledger : Version_parse(t) # None /\ Version_parse(t)[1].prerelease = None}

\* C27: released stable versions are read back from the ledger: for every
\* template with ${version} and every stable version V, once the tag
\* format_tag(V) is in the ledger and no greater stable tag exists,
\* get_current_version(stable_only=True) returns V's major, minor, patch.
C27_ReleasedIsReadBack ==
  (/\ pc = "range"
   /\ next_version # None
   /\ \A t \in StableTags(tags) : ~TripleLess(Triple(next_version[1]), Triple(Version_parse(t)[1]))) =>
    /\ tag_version # None
    /\ Triple(tag_version[1]) = Triple(next_version[1])

\* C28: on a stable branch with at least one stable tag, the tag name
\* generate_version starts the commit range at,
\* format_tag(get_current_version(stable_only=True)), is the name of a tag
\* of the ledger, for every ledger content and the configured template.
C28_RangeStartIsATag ==
  pc = "range" /\ StableTags(tags) # {} =>
    /\ latest_tag # None
    /\ latest_tag[1] \in tags
====
